---- MODULE Spec2Model ----
(***************************************************************************)
(* Model of the ideabank-webapi request-processing core:                   *)
(*   - QueryService (services/querydb.py): buffered statements executed    *)
(*     on a session that a with-block opens and commits or rolls back;     *)
(*   - BaseEndpointHandler (handlers/__init__.py) and the                  *)
(*     AuthorizationRequired gate (handlers/preprocessors.py);             *)
(*   - the concrete handlers StopFollowingAccountHandler and               *)
(*     StopLikingConceptHandler (handlers/erasers.py) and                  *)
(*     CheckFollowingStatusHandler                                         *)
(*     (handlers/retrievers.py);                                           *)
(*   - the retrieval handlers ConceptLineageHandler (with the treelib      *)
(*     Tree it builds from the rows of the two recursive queries over      *)
(*     concept_links), SpecificConceptRetrievalHandler and                 *)
(*     AuthenticationHandler (handlers/retrievers.py);                     *)
(*   - ConceptCommentsSectionHandler (handlers/retrievers.py) gathering    *)
(*     the comment threads of a concept, one scope per query;              *)
(*   - the routes stop_following and stop_liking (__init__.py) building    *)
(*     the requests of the two erasers.                                    *)
(*                                                                         *)
(* Python's None is the empty sequence <<>>, a present value x is <<x>>.   *)
(* The sqlalchemy Session is an external object: its commit, rollback and  *)
(* close do not raise in this model; its execute either returns a cursor   *)
(* or raises a database error.                                             *)
(***************************************************************************)
EXTENDS Integers, Sequences, FiniteSets, TLC

VARIABLES
    \* ---- QueryService driven directly (specification SpecQS)
    qs,         \* the QueryService instance: _query_buffer, _query_results, _session
    qsDb,       \* every Session object the instance has created, in creation order
    qsLast,     \* the last operation called on the instance and how it ended
    qsOps,      \* number of operations called so far
    qsAdded,    \* every statement passed to add_query so far, in call order
    qsMark,     \* the number of statements added before the latest __enter__
    \* ---- handlers driven by the route layer (specification Spec)
    status,     \* handler -> _status
    result,     \* handler -> _result
    services,   \* handler -> _services (the registry)
    db,         \* handler -> the Session objects its providers have created
    pc,         \* handler -> position inside the receive call in progress
    req,        \* handler -> the request of the current / last receive call
    exc,        \* handler -> the exception in flight inside receive, if any
    ret,        \* handler -> the value _do_data_ops returned, if any
    calls,      \* handler -> number of receive calls made
    lastCall,   \* handler -> how the last receive call ended
    callOps,    \* handler -> _do_data_ops invocations during the current / last call
    callSvcOps, \* handler -> QueryService operations during the current / last call
    regs,       \* handler -> number of use_service calls made
    lastRead,   \* handler -> outcome of the last read of the result property
    \* ---- local state of the retrieval handlers (specification SpecRetrievers)
    lineage,    \* handler -> the treelib Tree `lineage` of ConceptLineageHandler
    fetched,    \* handler -> rows of the current cursor the with-body has not read yet
    links,      \* the concept_links table the lineage queries ran against
    \* ---- inputs and outputs of the pure functions (SpecMappers, SpecSearch)
    raised,     \* a handler class and the exception its data operation raised
    response,   \* the response _build_error_response has built for it, if any
    query,      \* the arguments of one call of query_concepts
    statement,  \* the statement the call has returned, if any
    matched,    \* the concepts the statement has selected, if it was executed
    \* ---- the engagement tables of the database the handlers' sessions work on
    follows,    \* the follow records <<follower, followee>>
    comments,   \* the comments on the requested concept: comment id -> the id of the
                \* comment it responds to, 0 for a comment that starts a thread
    \* ---- ConceptCommentsSectionHandler (specification SpecComments)
    comment_tree,  \* the comments gathered so far, each with the comment it was put under
    frames      \* the calls in progress: _do_data_ops, then __gather_responses per level

qsVars == <<qs, qsDb, qsLast, qsOps, qsAdded, qsMark>>
hVars == <<status, result, services, db, pc, req, exc, ret, calls, lastCall,
           callOps, callSvcOps, regs, lastRead>>
lVars == <<lineage, fetched, links>>
pVars == <<raised, response, query, statement, matched>>
eVars == <<follows, comments, comment_tree, frames>>
vars == <<qs, qsDb, qsLast, qsOps, qsAdded, qsMark, status, result, services, db, pc, req, exc,
          ret, calls, lastCall, callOps, callSvcOps, regs, lastRead, lineage, fetched, links,
          raised, response, query, statement, matched, follows, comments, comment_tree,
          frames>>

----------------------------------------------------------------------------
(* Bounds of the model *)

MaxOps == 5         \* operations called on the directly driven QueryService
MaxRows == 2        \* rows a cursor can hold (0, 1, more than one)
MaxReceives == 2    \* receive calls per handler instance
MaxRegs == 1        \* use_service calls per handler instance
MaxRouteRegs == 2   \* use_service calls on a handler instance that is served alone
MaxConcepts == 3    \* concepts of the arbitrary acyclic concept_links tables
MaxAnc == 2         \* ancestors in a chain above the focus concept
MaxKids == 2        \* direct descendants of the focus concept
MaxChain == 12      \* concepts of the long chain of links
MaxDelegation == 3  \* calls of _build_error_response followed for one exception
MaxTime == 2        \* the latest point in time of the search window and of the rows
MaxComments == 3    \* the most comments the requested concept has

----------------------------------------------------------------------------
(* Values *)

None == <<>>
Some(x) == <<x>>

Users == {"alice", "bob"}

\* exception classes (exceptions.py); Domain = subclasses of BaseIdeaBankAPIException
BaseIdeaBankAPIException == "BaseIdeaBankAPIException"
NoError == "NoError"
NoSessionToQueryOnError == "NoSessionToQueryOnError"
NoQueryToRunError == "NoQueryToRunError"
NoRegisteredProviderError == "NoRegisteredProviderError"
NotAuthorizedError == "NotAuthorizedError"
RequestedDataNotFound == "RequestedDataNotFound"
HandlerNotIdleException == "HandlerNotIdleException"
PrematureResultRetrievalException == "PrematureResultRetrievalException"
NoResultFound == "NoResultFound"                \* sqlalchemy.exc
MultipleResultsFound == "MultipleResultsFound"  \* sqlalchemy.exc
DatabaseError == "DatabaseError"                \* sqlalchemy.exc, raised by execute
AttributeError == "AttributeError"              \* None has no commit / rollback
InvalidCredentialsException == "InvalidCredentialsException"
DuplicatedNodeIdError == "DuplicatedNodeIdError"    \* treelib.exceptions
MultipleRootError == "MultipleRootError"            \* treelib.exceptions
NodeIDAbsentError == "NodeIDAbsentError"            \* treelib.exceptions
ValueError == "ValueError"                          \* Tree.paste on a shared identifier

DomainErrors == {BaseIdeaBankAPIException, NoSessionToQueryOnError, NoQueryToRunError, NoRegisteredProviderError,
                 NotAuthorizedError, RequestedDataNotFound, HandlerNotIdleException,
                 PrematureResultRetrievalException, InvalidCredentialsException}

IsDomain(e) == e \in DomainErrors

\* An exception instance; str(exc) is its msg
Exc(type, msg) == [type |-> type, msg |-> msg]

----------------------------------------------------------------------------
(* QueryService: services/querydb.py *)

Stmt(op, a, b) == [op |-> op, a |-> a, b |-> b]

QsStmts == {Stmt("revoke_following", "alice", "bob"), Stmt("check_following", "bob", "alice")}

\* What Session.execute can do with a statement: raise, or return a cursor of n rows
DbOutcomes == {[ok |-> FALSE, rows |-> 0]} \cup {[ok |-> TRUE, rows |-> n] : n \in 0..MaxRows}

\* A Session object: whether close() was called, how often commit() and rollback()
\* were called, and the statements executed on it, in order.
NewSession == [closed |-> FALSE, commits |-> 0, rollbacks |-> 0, executed |-> <<>>]

\* QueryService.__init__
QueryServiceInit == [buffer |-> <<>>, results |-> None, session |-> None]

\* add_query that puts the statement in front of the buffer
add_query_in_front(s, q) == [s EXCEPT !.buffer = <<q>> \o @]

\* QueryService.add_query
add_query(s, q) == [s EXCEPT !.buffer = Append(@, q)]

\* exec_next with its two checks in the other order
exec_next_buffer_first(s, d, outcome) ==
    IF Len(s.buffer) = 0
    THEN [svc |-> s, db |-> d, err |-> NoQueryToRunError]
    ELSE IF s.session = None
    THEN [svc |-> s, db |-> d, err |-> NoSessionToQueryOnError]
    ELSE LET stmt == Head(s.buffer)
             popped == [s EXCEPT !.buffer = Tail(@)]
             sid == s.session[1]
         IN IF outcome.ok
            THEN [svc |-> [popped EXCEPT !.results =
                              Some([stmt |-> stmt, rows |-> outcome.rows, sess |-> sid])],
                  db |-> [d EXCEPT ![sid].executed = Append(@, stmt)],
                  err |-> NoError]
            ELSE [svc |-> popped, db |-> d, err |-> DatabaseError]

\* exec_next that runs the first statement of the buffer and leaves it there
exec_next_without_pop(s, d, outcome) ==
    IF s.session = None
    THEN [svc |-> s, db |-> d, err |-> NoSessionToQueryOnError]
    ELSE IF Len(s.buffer) = 0
    THEN [svc |-> s, db |-> d, err |-> NoQueryToRunError]
    ELSE LET stmt == Head(s.buffer)
             sid == s.session[1]
         IN IF outcome.ok
            THEN [svc |-> [s EXCEPT !.results =
                              Some([stmt |-> stmt, rows |-> outcome.rows, sess |-> sid])],
                  db |-> [d EXCEPT ![sid].executed = Append(@, stmt)],
                  err |-> NoError]
            ELSE [svc |-> s, db |-> d, err |-> DatabaseError]

\* exec_next that forgets the cursor of the previous statement before its checks
exec_next_forgetting_cursor(s, d, outcome) ==
    LET cleared == [s EXCEPT !.results = None]
    IN IF s.session = None
       THEN [svc |-> cleared, db |-> d, err |-> NoSessionToQueryOnError]
       ELSE IF Len(s.buffer) = 0
       THEN [svc |-> cleared, db |-> d, err |-> NoQueryToRunError]
       ELSE LET stmt == Head(s.buffer)
                popped == [cleared EXCEPT !.buffer = Tail(@)]
                sid == s.session[1]
            IN IF outcome.ok
               THEN [svc |-> [popped EXCEPT !.results =
                                 Some([stmt |-> stmt, rows |-> outcome.rows, sess |-> sid])],
                     db |-> [d EXCEPT ![sid].executed = Append(@, stmt)],
                     err |-> NoError]
               ELSE [svc |-> popped, db |-> d, err |-> DatabaseError]

\* QueryService.exec_next: the service, the sessions and the exception raised
exec_next(s, d, outcome) ==
    IF s.session = None
    THEN [svc |-> s, db |-> d, err |-> NoSessionToQueryOnError]
    ELSE IF Len(s.buffer) = 0
    THEN [svc |-> s, db |-> d, err |-> NoQueryToRunError]
    ELSE LET stmt == Head(s.buffer)
             popped == [s EXCEPT !.buffer = Tail(@)]
             sid == s.session[1]
         IN IF outcome.ok
            THEN [svc |-> [popped EXCEPT !.results =
                              Some([stmt |-> stmt, rows |-> outcome.rows, sess |-> sid])],
                  db |-> [d EXCEPT ![sid].executed = Append(@, stmt)],
                  err |-> NoError]
            ELSE [svc |-> popped, db |-> d, err |-> DatabaseError]

\* QueryService.results
results(s) == s.results

\* QueryService.__enter__
enter(s, d) ==
    [svc |-> [s EXCEPT !.session = Some(Len(d) + 1)],
     db |-> Append(d, NewSession),
     err |-> NoError]

\* __exit__ that commits whatever happened in the body
ExitCommitsAlways(exc_val) == TRUE

\* __exit__ that rolls back whatever happened in the body
ExitCommitsNever(exc_val) == FALSE

\* The branch of __exit__ on exc_val: which of rollback / commit is called
ExitCommits(exc_val) == exc_val = None

\* __exit__ that also forgets the cursor
exit_clears_results(s, d, exc_val) ==
    IF s.session = None
    THEN [svc |-> s, db |-> d, err |-> AttributeError]
    ELSE LET sid == s.session[1]
             done == IF ExitCommits(exc_val)
                     THEN [d[sid] EXCEPT !.commits = @ + 1]
                     ELSE [d[sid] EXCEPT !.rollbacks = @ + 1]
         IN [svc |-> [s EXCEPT !.session = None, !.results = None],
             db |-> [d EXCEPT ![sid] = [done EXCEPT !.closed = TRUE]],
             err |-> NoError]

\* __exit__ that tears the session down only when the body raised nothing
exit_only_on_success(s, d, exc_val) ==
    IF s.session = None
    THEN [svc |-> s, db |-> d, err |-> AttributeError]
    ELSE LET sid == s.session[1]
         IN IF exc_val = None
            THEN [svc |-> [s EXCEPT !.session = None],
                  db |-> [d EXCEPT ![sid] = [@ EXCEPT !.commits = @ + 1, !.closed = TRUE]],
                  err |-> NoError]
            ELSE [svc |-> s, db |-> d, err |-> NoError]

\* QueryService.__exit__ ; exc_val is None or Some(exception)
exit(s, d, exc_val) ==
    IF s.session = None
    THEN [svc |-> s, db |-> d, err |-> AttributeError]
    ELSE LET sid == s.session[1]
             done == IF ExitCommits(exc_val)
                     THEN [d[sid] EXCEPT !.commits = @ + 1]
                     ELSE [d[sid] EXCEPT !.rollbacks = @ + 1]
         IN [svc |-> [s EXCEPT !.session = None],
             db |-> [d EXCEPT ![sid] = [done EXCEPT !.closed = TRUE]],
             err |-> NoError]

\* the DELETE that EngagementDataService.revoke_following builds, applied to the
\* follow records: the record of this follower and followee is removed, if there is one
revoke_following(records, follower, followee) == records \ {<<follower, followee>>}

\* Session.commit(): the follow records once the deletes executed in the session are
\* made durable
RECURSIVE commit(_, _)
commit(records, executed) ==
    IF executed = <<>> THEN records
    ELSE LET first == Head(executed)
         IN commit(IF first.op = "revoke_following"
                   THEN revoke_following(records, first.a, first.b)
                   ELSE records,
                   Tail(executed))

----------------------------------------------------------------------------
(* SpecQS: the operations of one QueryService called in any order *)

QsApply(op, arg, r) ==
    /\ qsOps < MaxOps
    /\ qs' = r.svc
    /\ qsDb' = r.db
    /\ qsLast' = [op |-> op, arg |-> arg, err |-> r.err]
    /\ qsOps' = qsOps + 1
    /\ qsAdded' = IF op = "add_query" THEN Append(qsAdded, arg[1]) ELSE qsAdded
    /\ qsMark' = IF op = "enter" THEN Len(qsAdded) ELSE qsMark
    /\ UNCHANGED <<hVars, lVars, pVars, eVars>>

QsAddQuery ==
    \E q \in QsStmts :
        QsApply("add_query", Some(q), [svc |-> add_query(qs, q), db |-> qsDb, err |-> NoError])

QsExecNext ==
    \E o \in DbOutcomes : QsApply("exec_next", None, exec_next(qs, qsDb, o))

QsEnter == QsApply("enter", None, enter(qs, qsDb))

\* the with-block is left normally (None) or by an exception raised in its body
QsExit ==
    \E e \in {None, Some(Exc(NoQueryToRunError, <<"There is no queued query waiting to run.">>)),
              Some(Exc(DatabaseError, <<"database error">>))} :
        QsApply("exit", e, exit(qs, qsDb, e))

QsInitVars ==
    /\ qs = QueryServiceInit
    /\ qsDb = <<>>
    /\ qsLast = [op |-> "init", arg |-> None, err |-> NoError]
    /\ qsOps = 0
    /\ qsAdded = <<>>
    /\ qsMark = 0

----------------------------------------------------------------------------
(* Handlers: handlers/__init__.py, handlers/preprocessors.py,              *)
(* handlers/erasers.py, handlers/retrievers.py                             *)

HTTP_200_OK == 200
HTTP_401_UNAUTHORIZED == 401
HTTP_404_NOT_FOUND == 404
HTTP_500_INTERNAL_SERVER_ERROR == 500

\* EndpointHandlerStatus
IDLE == "IDLE"
PROCESSING == "PROCESSING"
COMPLETE == "COMPLETE"
ERROR == "ERROR"

\* One instance of a gated handler class and one of a plain handler class
Handlers == {"h1", "h2"}
\* One instance of each of three retrieval handler classes
Retrievers == {"h3", "h4", "h5"}
\* One instance of each of the two eraser classes
Erasers == {"h1", "h6"}
\* two handlers a route creates one after the other for two unfollow requests
Unfollowers == {"h1", "h7"}
\* the handler the comments route creates
Gatherers == {"h8"}
Instances == Handlers \cup Retrievers \cup Erasers \cup Unfollowers \cup Gatherers
Kind(h) ==
    CASE h \in {"h1", "h7"} -> "StopFollowingAccountHandler"
      [] h = "h2" -> "CheckFollowingStatusHandler"
      [] h = "h3" -> "ConceptLineageHandler"
      [] h = "h4" -> "SpecificConceptRetrievalHandler"
      [] h = "h6" -> "StopLikingConceptHandler"
      [] h = "h8" -> "ConceptCommentsSectionHandler"
      [] OTHER -> "AuthenticationHandler"

\* class StopFollowingAccountHandler(AuthorizationRequired),
\* class StopLikingConceptHandler(AuthorizationRequired)
Gated(kind) == kind \in {"StopFollowingAccountHandler", "StopLikingConceptHandler"}

\* RegisteredService
ACCOUNTS_DS == "ACCOUNTS_DS"
CONCEPTS_DS == "CONCEPTS_DS"
ENGAGE_DS == "ENGAGE_DS"
ServiceNames == {ACCOUNTS_DS, CONCEPTS_DS, ENGAGE_DS}

\* the names the route function of each handler class registers
RouteServices(kind) ==
    CASE kind \in {"ConceptLineageHandler", "SpecificConceptRetrievalHandler"} -> {CONCEPTS_DS}
      [] kind = "AuthenticationHandler" -> {ACCOUNTS_DS}
      [] OTHER -> {ENGAGE_DS}

\* the name each _do_data_ops passes to self.get_service
Provider(kind) ==
    CASE kind \in {"ConceptLineageHandler", "SpecificConceptRetrievalHandler"} -> CONCEPTS_DS
      [] kind = "AuthenticationHandler" -> ACCOUNTS_DS
      [] OTHER -> ENGAGE_DS

\* use_service that leaves a provider already registered under the name in place
use_service_keeps_existing(svcs, name) ==
    IF svcs[name] = None THEN [svcs EXCEPT ![name] = Some(QueryServiceInit)] ELSE svcs

\* BaseEndpointHandler.use_service: name.value() is a new provider instance
use_service(svcs, name) == [svcs EXCEPT ![name] = Some(QueryServiceInit)]

\* BaseEndpointHandler.get_service: the provider, or the exception raised
get_service(svcs, name) ==
    IF svcs[name] = None
    THEN [provider |-> None,
          err |-> Some(Exc(NoRegisteredProviderError, <<"No service registered under ", name>>))]
    ELSE [provider |-> svcs[name], err |-> None]

\* ---- tokens and requests
\* A token string: signed with the service key and valid now, or not
\* (malformed, wrong signature, expired, a required claim missing).
Tokens == {[signed |-> FALSE, username |-> "alice"]} \cup
          {[signed |-> TRUE, username |-> u] : u \in Users}

\* jwt.decode: the claims, or None for jwt.exceptions.InvalidTokenError
jwt_decode(token) == IF token.signed THEN Some([username |-> token.username]) ELSE None

Followees == {"bob"}

\* identifiers 'author/title' of concepts
Concepts == 1..MaxChain

\* the concepts an unlike request names
Likeable == {1, 2}

Passwords == {<<"hunter2">>, <<"letmein">>}
Salts == {<<"pepper">>, <<"salt">>}

\* UnfollowRequest and UnlikeRequest (gated), AccountFollowingRecord, ConceptRequest
\* and CredentialSet
Requests(kind) ==
    CASE kind = "StopFollowingAccountHandler" ->
            {[auth_token |-> [token |-> t, presenter |-> p], follower |-> f, followee |-> g] :
                t \in Tokens, p \in Users, f \in Users, g \in Followees}
      [] kind = "StopLikingConceptHandler" ->
            {[auth_token |-> [token |-> t, presenter |-> p], user_liking |-> u,
              concept_liked |-> c] :
                t \in Tokens, p \in Users, u \in Users, c \in Likeable}
      [] kind = "ConceptLineageHandler" ->
            {[identifier |-> c, simple |-> TRUE] : c \in Concepts}
      [] kind = "SpecificConceptRetrievalHandler" ->
            {[identifier |-> c, simple |-> b] : c \in Concepts, b \in BOOLEAN}
      [] kind = "AuthenticationHandler" ->
            {[display_name |-> u, password |-> p] : u \in Users, p \in Passwords}
      [] kind = "ConceptCommentsSectionHandler" ->
            {[identifier |-> c, simple |-> TRUE] : c \in Likeable}
      [] OTHER -> {[follower |-> f, followee |-> g] : f \in Users, g \in Followees}

\* a stop_following route that presents the request in the name of the token's owner
stop_following_for_token_owner(follow_data, authorization) ==
    [auth_token |-> [token |-> authorization, presenter |-> authorization.username],
     follower |-> follow_data.follower, followee |-> follow_data.followee]

\* the route stop_following: the UnfollowRequest it hands to the handler, built from
\* the AccountFollowingRecord of the body and the authorization header
stop_following(follow_data, authorization) ==
    [auth_token |-> [token |-> authorization, presenter |-> follow_data.follower],
     follower |-> follow_data.follower, followee |-> follow_data.followee]

\* the route stop_liking: the UnlikeRequest it hands to the handler
stop_liking(like_data, authorization) ==
    [auth_token |-> [token |-> authorization, presenter |-> like_data.user_liking],
     user_liking |-> like_data.user_liking, concept_liked |-> like_data.concept_liked]

\* _check_if_authorized without the comparison of the claim with the presenter
check_if_authorized_any_owner(authorization) ==
    LET claims == jwt_decode(authorization.token)
    IN IF claims = None
       THEN Some(Exc(NotAuthorizedError, <<"Invalid token presented.">>))
       ELSE None

\* AuthorizationRequired._check_if_authorized: None, or the exception raised
check_if_authorized(authorization) ==
    LET claims == jwt_decode(authorization.token)
    IN IF claims = None
       THEN Some(Exc(NotAuthorizedError, <<"Invalid token presented.">>))
       ELSE IF claims[1].username # authorization.presenter
       THEN Some(Exc(NotAuthorizedError, <<"Cannot verify ownership of token.">>))
       ELSE None

\* ---- responses
EndpointResponse(code, body) == [code |-> code, body |-> body]
EndpointErrorMessage(msg) == [kind |-> "EndpointErrorMessage", msg |-> msg]
EndpointInformationalMessage(msg) == [kind |-> "EndpointInformationalMessage", msg |-> msg]

\* BaseEndpointHandler._build_error_response
base_build_error_response(e) ==
    EndpointResponse(HTTP_500_INTERNAL_SERVER_ERROR, EndpointErrorMessage(e.msg))

\* a gate whose error mapper answers 401 whatever the exception is
auth_build_error_response_always_401(e) ==
    EndpointResponse(HTTP_401_UNAUTHORIZED, EndpointErrorMessage(e.msg))

\* AuthorizationRequired._build_error_response
auth_build_error_response(e) ==
    IF e.type = NotAuthorizedError
    THEN EndpointResponse(HTTP_401_UNAUTHORIZED, EndpointErrorMessage(e.msg))
    ELSE base_build_error_response(e)

\* the concrete handler classes of handlers/erasers.py and handlers/retrievers.py
HandlerClasses ==
    {"StopFollowingAccountHandler", "StopLikingConceptHandler", "AuthenticationHandler",
     "ProfileRetrievalHandler", "SpecificConceptRetrievalHandler",
     "ConceptSearchResultHandler", "ConceptLineageHandler", "CheckFollowingStatusHandler",
     "CheckLikingStatusHandler", "ConceptCommentsSectionHandler"}

\* a _build_error_response that calls itself instead of the method of its base class
SuperIsSelf(cls) == cls

\* the class whose method super()._build_error_response(exc) is, called in class cls
Super(cls) == IF Gated(cls) THEN "AuthorizationRequired" ELSE "BaseEndpointHandler"

\* the status code the _build_error_response of class cls itself answers exception e
\* with; None when it passes e to super()
OwnMapping(cls, e) ==
    CASE cls = "BaseEndpointHandler" -> Some(HTTP_500_INTERNAL_SERVER_ERROR)
      [] cls = "AuthorizationRequired" ->
            IF e.type = NotAuthorizedError THEN Some(HTTP_401_UNAUTHORIZED) ELSE None
      [] cls = "AuthenticationHandler" ->
            IF e.type = InvalidCredentialsException THEN Some(HTTP_401_UNAUTHORIZED) ELSE None
      [] cls \in {"ProfileRetrievalHandler", "SpecificConceptRetrievalHandler",
                  "ConceptLineageHandler", "CheckFollowingStatusHandler",
                  "CheckLikingStatusHandler"} ->
            IF e.type = RequestedDataNotFound THEN Some(HTTP_404_NOT_FOUND) ELSE None
      [] OTHER -> None

\* the classes whose _build_error_response runs for e, starting in class cls, in call
\* order; at most fuel calls are followed
RECURSIVE Delegation(_, _, _)
Delegation(cls, e, fuel) ==
    IF fuel = 0 THEN <<>>
    ELSE IF OwnMapping(cls, e) # None THEN <<cls>>
    ELSE <<cls>> \o Delegation(Super(cls), e, fuel - 1)

\* self._build_error_response of each concrete class
build_error_response(kind, e) ==
    IF OwnMapping(kind, e) # None
    THEN EndpointResponse(OwnMapping(kind, e)[1], EndpointErrorMessage(e.msg))
    ELSE IF Super(kind) = "AuthorizationRequired"
    THEN auth_build_error_response(e)
    ELSE base_build_error_response(e)

\* AuthenticationHandler.__generate_token: jwt.encode of the claims with the service key
generate_token(owner) == [signed |-> TRUE, username |-> owner]

AuthorizationToken(token, presenter) == [token |-> token, presenter |-> presenter]

\* self._build_success_response of each concrete class
build_success_response(kind, requested_data) ==
    IF kind = "AuthenticationHandler"
    THEN EndpointResponse(HTTP_200_OK,
                          AuthorizationToken(generate_token(requested_data), requested_data))
    ELSE EndpointResponse(HTTP_200_OK, requested_data)

\* statements built with the two arguments of the request the other way round
QueryOfReversed(kind, r) ==
    CASE kind = "StopFollowingAccountHandler" -> Stmt("revoke_following", r.followee, r.follower)
      [] kind = "StopLikingConceptHandler" ->
            Stmt("revoke_liking", r.concept_liked, r.user_liking)
      [] kind \in {"ConceptLineageHandler", "SpecificConceptRetrievalHandler"} ->
            Stmt("find_exact_concept", r.identifier, r.identifier)
      [] kind = "AuthenticationHandler" ->
            Stmt("fetch_authentication_information", r.display_name, r.display_name)
      [] OTHER -> Stmt("check_following", r.followee, r.follower)

\* ---- the parts of _do_data_ops that differ per concrete class
\* the statement the handler enqueues
QueryOf(kind, r) ==
    CASE kind = "StopFollowingAccountHandler" -> Stmt("revoke_following", r.follower, r.followee)
      [] kind = "StopLikingConceptHandler" ->
            Stmt("revoke_liking", r.user_liking, r.concept_liked)
      [] kind \in {"ConceptLineageHandler", "SpecificConceptRetrievalHandler"} ->
            Stmt("find_exact_concept", r.identifier, r.identifier)
      [] kind = "AuthenticationHandler" ->
            Stmt("fetch_authentication_information", r.display_name, r.display_name)
      [] OTHER -> Stmt("check_following", r.follower, r.followee)

\* whether the with-body calls service.results.one()
CallsOne(kind) == ~Gated(kind)

\* where the with-body goes on when service.results.one() has returned a row
AfterOne(kind) ==
    CASE kind = "ConceptLineageHandler" -> "add_parents"
      [] kind = "AuthenticationHandler" -> "verify"
      [] OTHER -> "exit"

\* one() that is content with whatever the cursor holds
one_accepts_any(rows) == None

\* Result.one(): the exception it raises for a cursor of n rows, if any
one(rows) ==
    IF rows = 0 THEN Some(Exc(NoResultFound, <<"No row was found when one was required">>))
    ELSE IF rows > 1
    THEN Some(Exc(MultipleResultsFound, <<"Multiple rows were found when exactly one was required">>))
    ELSE None

\* the value _do_data_ops returns
DataOf(kind, r) ==
    CASE kind = "StopFollowingAccountHandler" ->
            EndpointInformationalMessage(<<r.follower, " is no longer following ", r.followee>>)
      [] kind = "StopLikingConceptHandler" ->
            EndpointInformationalMessage(<<r.user_liking, " no longer likes ",
                                           ToString(r.concept_liked)>>)
      [] kind = "SpecificConceptRetrievalHandler" ->
            [kind |-> IF r.simple THEN "ConceptSimpleView" ELSE "ConceptFullView",
             identifier |-> r.identifier]
      [] OTHER -> EndpointInformationalMessage(<<r.follower, " is following ", r.followee>>)

\* a _do_data_ops without the except clause around its with-block
TranslateNothing(kind, r, e) == e

\* an except clause that tells the caller that the account does not exist
TranslateNamingTheAccount(kind, r, e) ==
    IF e.type # NoResultFound THEN e
    ELSE CASE kind = "AuthenticationHandler" ->
                Exc(InvalidCredentialsException, <<"No account named ", r.display_name>>)
           [] OTHER -> Exc(RequestedDataNotFound, <<"No match">>)

\* the except clause around the with-block of _do_data_ops: the exception that leaves
Translate(kind, r, e) ==
    IF e.type # NoResultFound THEN e
    ELSE CASE kind = "CheckFollowingStatusHandler" ->
                Exc(RequestedDataNotFound, <<r.follower, " is not following ", r.followee>>)
           [] kind = "ConceptLineageHandler" ->
                Exc(RequestedDataNotFound,
                    <<"Could not build the lineage for ", ToString(r.identifier)>>)
           [] kind = "SpecificConceptRetrievalHandler" ->
                Exc(RequestedDataNotFound, <<"No match for ", ToString(r.identifier)>>)
           [] kind = "AuthenticationHandler" ->
                Exc(InvalidCredentialsException, <<"Invalid display name or password">>)
           [] OTHER -> e

\* the result property refusing only a handler that never received
result_property_unless_idle(st, res) ==
    IF st = IDLE
    THEN [err |-> PrematureResultRetrievalException, value |-> None]
    ELSE [err |-> NoError, value |-> res]

\* BaseEndpointHandler.result: the value read, or the exception raised
result_property(st, res) ==
    IF st \notin {COMPLETE, ERROR}
    THEN [err |-> PrematureResultRetrievalException, value |-> None]
    ELSE [err |-> NoError, value |-> res]

\* the guard of BaseEndpointHandler.receive
ReceiveAccepts(st) == st = IDLE

\* the except clause of BaseEndpointHandler.receive
Catches(e) == IsDomain(e.type)

NoRead == [err |-> "NoRead", value |-> None]

HInitVars ==
    /\ follows = {<<"alice", "bob">>}
    /\ comment_tree = <<>>
    /\ frames = <<>>
    /\ status = [h \in Instances |-> IDLE]
    /\ result = [h \in Instances |-> None]
    /\ services = [h \in Instances |-> [n \in ServiceNames |-> None]]
    /\ db = [h \in Instances |-> <<>>]
    /\ pc = [h \in Instances |-> "none"]
    /\ req = [h \in Instances |-> None]
    /\ exc = [h \in Instances |-> None]
    /\ ret = [h \in Instances |-> None]
    /\ calls = [h \in Instances |-> 0]
    /\ lastCall = [h \in Instances |-> "none"]
    /\ callOps = [h \in Instances |-> 0]
    /\ callSvcOps = [h \in Instances |-> 0]
    /\ regs = [h \in Instances |-> 0]
    /\ lastRead = [h \in Instances |-> NoRead]
    /\ lineage = [h \in Instances |-> {}]
    /\ fetched = [h \in Instances |-> {}]
    /\ links = {}

----------------------------------------------------------------------------
(* Lineage: the treelib Tree as ConceptLineageHandler._do_data_ops uses it, *)
(* and the rows of the two recursive queries over concept_links.           *)

LineageDepth == 10

\* A Tree is the set of its nodes; a node is its identifier and its parent's
\* identifier, NoParent for a root.
NoParent == 0
Tree == {}
Node(id, parent) == [id |-> id, parent |-> parent]
Ids(t) == {n.id : n \in t}
Roots(t) == {n.id : n \in {m \in t : m.parent = NoParent}}
Children(t, id) == {n.id : n \in {m \in t : m.parent = id}}

\* Tree.create_node that adds the node whatever the tree holds
create_node_unchecked(t, id, parent) == [tree |-> t \cup {Node(id, parent)}, err |-> NoError]

\* Tree.create_node(identifier=id, parent=parent): the tree and the exception raised
create_node(t, id, parent) ==
    IF id \in Ids(t) THEN [tree |-> t, err |-> DuplicatedNodeIdError]
    ELSE IF parent = NoParent
    THEN IF Roots(t) # {}
         THEN [tree |-> t, err |-> MultipleRootError]
         ELSE [tree |-> t \cup {Node(id, NoParent)}, err |-> NoError]
    ELSE IF parent \notin Ids(t) THEN [tree |-> t, err |-> NodeIDAbsentError]
    ELSE [tree |-> t \cup {Node(id, parent)}, err |-> NoError]

\* paste that takes the nodes over as they are: the pasted root stays a root
paste_without_link(t, nid, new_tree) ==
    IF Roots(new_tree) = {} THEN [tree |-> t, err |-> NoError]
    ELSE IF nid \notin Ids(t) THEN [tree |-> t, err |-> NodeIDAbsentError]
    ELSE IF Ids(t) \cap Ids(new_tree) # {} THEN [tree |-> t, err |-> ValueError]
    ELSE [tree |-> t \cup new_tree, err |-> NoError]

\* t.paste(nid, new_tree): new_tree's root becomes a child of t's node nid
paste(t, nid, new_tree) ==
    IF Roots(new_tree) = {} THEN [tree |-> t, err |-> NoError]
    ELSE IF nid \notin Ids(t) THEN [tree |-> t, err |-> NodeIDAbsentError]
    ELSE IF Ids(t) \cap Ids(new_tree) # {} THEN [tree |-> t, err |-> ValueError]
    ELSE [tree |-> t \cup {IF n.parent = NoParent THEN Node(n.id, nid) ELSE n : n \in new_tree},
          err |-> NoError]

\* Tree.size()
size(t) == Cardinality(t)

RECURSIVE subtree_dict(_, _)
\* the nested dict of the subtree below one node
subtree_dict(t, id) == [tag |-> id, children |-> {subtree_dict(t, c) : c \in Children(t, id)}]

\* Tree.to_dict(with_data=True)
to_dict(t) == {subtree_dict(t, r) : r \in Roots(t)}

ConceptLineage(nodes, dict) == [kind |-> "ConceptLineage", nodes |-> nodes, lineage |-> dict]

\* concept_links: a set of <<ancestor, descendant>>
RECURSIVE UpPaths(_, _, _)
\* the rows of the recursive part of find_parent_ideas at one depth: one per path
\* of d links leading up from the identifier (UNION ALL keeps every path)
UpPaths(L, id, d) ==
    IF d = 0 THEN {<<id>>}
    ELSE {Append(x[1], x[2][1]) :
            x \in {y \in UpPaths(L, id, d - 1) \X L : y[2][2] = y[1][Len(y[1])]}}

RECURSIVE DownPaths(_, _, _)
\* the same for find_child_ideas: paths of d links leading down
DownPaths(L, id, d) ==
    IF d = 0 THEN {<<id>>}
    ELSE {Append(x[1], x[2][2]) :
            x \in {y \in DownPaths(L, id, d - 1) \X L : y[2][1] = y[1][Len(y[1])]}}

\* ConceptsDataService.find_parent_ideas(identifier, depth) run on the table L: the
\* last link of every path of at most `depth` links; the path tells equal rows apart
find_parent_ideas(L, id, depth) ==
    {[ancestor |-> p[Len(p)], descendant |-> p[Len(p) - 1], depth |-> Len(p) - 1, path |-> p] :
        p \in UNION {UpPaths(L, id, d) : d \in 1..depth}}

\* find_child_ideas whose filter lets one more level through
find_child_ideas_one_deeper(L, id, depth) ==
    {[ancestor |-> p[Len(p) - 1], descendant |-> p[Len(p)], depth |-> Len(p) - 1, path |-> p] :
        p \in UNION {DownPaths(L, id, d) : d \in 1..(depth + 1)}}

\* ConceptsDataService.find_child_ideas(identifier, depth) run on the table L
find_child_ideas(L, id, depth) ==
    {[ancestor |-> p[Len(p) - 1], descendant |-> p[Len(p)], depth |-> Len(p) - 1, path |-> p] :
        p \in UNION {DownPaths(L, id, d) : d \in 1..depth}}

\* a cursor that hands out its rows in any order
NextRowsAnyOrder(S) == S

\* ORDER BY depth: the rows the cursor can hand out next
NextRows(S) == {r \in S : \A q \in S : r.depth <= q.depth}

\* concept_links tables: a chain of k ancestors above the concept k+1 with m direct
\* descendants; one long chain; every acyclic table over a few concepts
ChainStar(k, m) == {<<i, i + 1>> : i \in 1..k} \cup {<<k + 1, k + 1 + j>> : j \in 1..m}
Chain(n) == {<<i, i + 1>> : i \in 1..(n - 1)}
Dags(n) == SUBSET {e \in (1..n) \X (1..n) : e[1] < e[2]}
LinkTables ==
    {ChainStar(k, m) : k \in 0..MaxAnc, m \in 0..MaxKids} \cup {Chain(MaxChain)}
        \cup Dags(MaxConcepts)

\* accounts rows a lookup by display name can return
sha256(password, salt) == password \o salt
Accounts(name) ==
    {[display_name |-> name, password_hash |-> sha256(p, s), salt_value |-> s] :
        p \in Passwords, s \in Salts}

\* __verify_credentials that is content with any password
verify_credentials_any_password(provided, oracle) == TRUE

\* AuthenticationHandler.__verify_credentials: whether it returns (or raises)
verify_credentials(provided, oracle) ==
    sha256(provided.password, oracle.salt_value) = oracle.password_hash

----------------------------------------------------------------------------
(* Spec: the route layer calls use_service, receive and result on each     *)
(* handler; the steps of a receive call in progress are taken in program   *)
(* order, and the calls on different handlers interleave.                  *)

Svc(h) == get_service(services[h], Provider(Kind(h))).provider[1]

\* the value _do_data_ops returns when its with-block was left normally
Returned(h) ==
    CASE Kind(h) = "ConceptLineageHandler" ->
            ConceptLineage(size(lineage[h]), to_dict(lineage[h]))
      [] Kind(h) = "AuthenticationHandler" -> (CHOOSE a \in fetched[h] : TRUE).display_name
      [] OTHER -> DataOf(Kind(h), req[h][1])

\* handler.use_service(name) is called, for at most cap calls on this handler
UseServiceUpTo(h, cap) ==
    /\ pc[h] = "none"
    /\ regs[h] < cap
    /\ \E n \in RouteServices(Kind(h)) :
          services' = [services EXCEPT ![h] = use_service(@, n)]
    /\ regs' = [regs EXCEPT ![h] = @ + 1]
    /\ lastRead' = [lastRead EXCEPT ![h] = NoRead]
    /\ UNCHANGED <<status, result, db, pc, req, exc, ret, calls, lastCall, callOps>>
    /\ UNCHANGED <<callSvcOps, qsVars, eVars, pVars, lVars>>

\* use_service on a registry that the handler class holds for all of its instances
UseServiceClassRegistry(h) ==
    /\ pc[h] = "none"
    /\ regs[h] < MaxRegs
    /\ \E n \in RouteServices(Kind(h)) :
          services' = [g \in Instances |-> use_service(services[g], n)]
    /\ regs' = [regs EXCEPT ![h] = @ + 1]
    /\ lastRead' = [lastRead EXCEPT ![h] = NoRead]
    /\ UNCHANGED <<status, result, db, pc, req, exc, ret, calls, lastCall, callOps>>
    /\ UNCHANGED <<callSvcOps, qsVars, eVars, pVars, lVars>>

UseService(h) == UseServiceUpTo(h, MaxRegs)

\* reading handler.result
ReadResult(h) ==
    /\ pc[h] = "none"
    /\ lastRead' = [lastRead EXCEPT ![h] = result_property(status[h], result[h])]
    /\ UNCHANGED <<status, result, services, db, pc, req, exc, ret, calls, lastCall,
                   callOps, regs>>
    /\ UNCHANGED <<callSvcOps, qsVars, eVars, pVars, lVars>>

\* a receive that marks the handler as failed when it rejects the call
BaseReceiveRejectingAsError(h) ==
    IF ~ReceiveAccepts(status[h])
    THEN /\ lastCall' = [lastCall EXCEPT ![h] = HandlerNotIdleException]
         /\ status' = [status EXCEPT ![h] = ERROR]
         /\ UNCHANGED <<result, pc>>
    ELSE /\ status' = [status EXCEPT ![h] = PROCESSING]
         /\ pc' = [pc EXCEPT ![h] = "do_data_ops"]
         /\ lastCall' = [lastCall EXCEPT ![h] = "running"]
         /\ UNCHANGED result

\* BaseEndpointHandler.receive up to the call of _do_data_ops
BaseReceive(h) ==
    IF ~ReceiveAccepts(status[h])
    THEN /\ lastCall' = [lastCall EXCEPT ![h] = HandlerNotIdleException]
         /\ UNCHANGED <<status, result, pc>>
    ELSE /\ status' = [status EXCEPT ![h] = PROCESSING]
         /\ pc' = [pc EXCEPT ![h] = "do_data_ops"]
         /\ lastCall' = [lastCall EXCEPT ![h] = "running"]
         /\ UNCHANGED result

\* the gate setting the status of a denied request without storing the 401 response
AuthReceiveWithoutResult(h, r) ==
    LET denied == check_if_authorized(r.auth_token)
    IN IF denied # None
       THEN /\ exc' = [exc EXCEPT ![h] = denied]
            /\ pc' = [pc EXCEPT ![h] = "auth_error"]
            /\ lastCall' = [lastCall EXCEPT ![h] = "running"]
            /\ UNCHANGED <<status, result>>
       ELSE /\ BaseReceive(h)
            /\ exc' = [exc EXCEPT ![h] = None]

\* AuthorizationRequired.receive up to the call of _do_data_ops
AuthReceive(h, r) ==
    LET denied == check_if_authorized(r.auth_token)
    IN IF denied # None
       THEN /\ result' = [result EXCEPT ![h] = Some(auth_build_error_response(denied[1]))]
            /\ exc' = [exc EXCEPT ![h] = denied]
            /\ pc' = [pc EXCEPT ![h] = "auth_error"]
            /\ lastCall' = [lastCall EXCEPT ![h] = "running"]
            /\ UNCHANGED status
       ELSE /\ BaseReceive(h)
            /\ exc' = [exc EXCEPT ![h] = None]

\* handler.receive(request) is called
Receive(h) ==
    /\ pc[h] = "none"
    /\ calls[h] < MaxReceives
    /\ \E r \in Requests(Kind(h)) :
          /\ req' = [req EXCEPT ![h] = Some(r)]
          /\ IF Gated(Kind(h))
             THEN AuthReceive(h, r)
             ELSE BaseReceive(h) /\ exc' = [exc EXCEPT ![h] = None]
    /\ calls' = [calls EXCEPT ![h] = @ + 1]
    /\ callOps' = [callOps EXCEPT ![h] = 0]
    /\ callSvcOps' = [callSvcOps EXCEPT ![h] = 0]
    /\ ret' = [ret EXCEPT ![h] = None]
    /\ lastRead' = [lastRead EXCEPT ![h] = NoRead]
    /\ UNCHANGED <<services, db, regs>>
    /\ UNCHANGED <<qsVars, eVars, pVars, lVars>>

\* AuthorizationRequired.receive: self._status = ERROR after the 401 result is built
AuthError(h) ==
    /\ pc[h] = "auth_error"
    /\ status' = [status EXCEPT ![h] = ERROR]
    /\ pc' = [pc EXCEPT ![h] = "none"]
    /\ lastCall' = [lastCall EXCEPT ![h] = "returned"]
    /\ UNCHANGED <<result, services, db, req, exc, ret, calls, callOps, regs, lastRead>>
    /\ UNCHANGED <<callSvcOps, qsVars, eVars, pVars, lVars>>

\* _do_data_ops is entered: self.get_service(...) and the __enter__ of the with
DoDataOps(h) ==
    /\ pc[h] = "do_data_ops"
    /\ callOps' = [callOps EXCEPT ![h] = @ + 1]
    /\ IF get_service(services[h], Provider(Kind(h))).err # None
       THEN /\ exc' = [exc EXCEPT ![h] = get_service(services[h], Provider(Kind(h))).err]
            /\ pc' = [pc EXCEPT ![h] = "except"]
            /\ UNCHANGED <<services, db, callSvcOps>>
       ELSE LET r == enter(Svc(h), db[h])
            IN /\ services' = [services EXCEPT ![h][Provider(Kind(h))] = Some(r.svc)]
               /\ db' = [db EXCEPT ![h] = r.db]
               /\ pc' = [pc EXCEPT ![h] = "add_query"]
               /\ callSvcOps' = [callSvcOps EXCEPT ![h] = @ + 1]
               /\ UNCHANGED exc
    /\ UNCHANGED <<status, result, req, ret, calls, lastCall, regs, lastRead>>
    /\ UNCHANGED <<qsVars, eVars, pVars, lVars>>

\* service.add_query(...) in the with-body
AddQuery(h) ==
    /\ pc[h] = "add_query"
    /\ services' = [services EXCEPT ![h][Provider(Kind(h))] =
                        Some(add_query(Svc(h), QueryOf(Kind(h), req[h][1])))]
    /\ pc' = [pc EXCEPT ![h] = "exec_next"]
    /\ UNCHANGED <<status, result, db, req, exc, ret, calls, lastCall, callOps, regs, lastRead>>
    /\ callSvcOps' = [callSvcOps EXCEPT ![h] = @ + 1]
    /\ UNCHANGED <<qsVars, eVars, pVars, lVars>>

\* service.exec_next() in the with-body
ExecNext(h) ==
    /\ pc[h] = "exec_next"
    /\ \E o \in DbOutcomes :
          LET r == exec_next(Svc(h), db[h], o)
          IN /\ services' = [services EXCEPT ![h][Provider(Kind(h))] = Some(r.svc)]
             /\ db' = [db EXCEPT ![h] = r.db]
             /\ IF r.err = NoError
                THEN /\ pc' = [pc EXCEPT ![h] = IF CallsOne(Kind(h)) THEN "one" ELSE "exit"]
                     /\ UNCHANGED exc
                ELSE /\ exc' = [exc EXCEPT ![h] = Some(Exc(r.err, <<r.err>>))]
                     /\ pc' = [pc EXCEPT ![h] = "exit"]
    /\ UNCHANGED <<status, result, req, ret, calls, lastCall, callOps, regs, lastRead>>
    /\ callSvcOps' = [callSvcOps EXCEPT ![h] = @ + 1]
    /\ UNCHANGED <<qsVars, eVars, pVars, lVars>>

\* service.results.one() in the with-body
One(h) ==
    /\ pc[h] = "one"
    /\ exc' = [exc EXCEPT ![h] = one(results(Svc(h))[1].rows)]
    /\ pc' = [pc EXCEPT ![h] = IF one(results(Svc(h))[1].rows) = None
                               THEN AfterOne(Kind(h)) ELSE "exit"]
    /\ UNCHANGED <<status, result, services, db, req, ret, calls, lastCall, callOps, regs,
                   lastRead>>
    /\ UNCHANGED <<callSvcOps, qsVars, eVars, pVars, lVars>>

\* the with-block is left (__exit__), then _do_data_ops returns or raises
Exit(h) ==
    /\ pc[h] = "exit"
    /\ LET r == exit(Svc(h), db[h], exc[h])
           sid == Svc(h).session[1]
       IN /\ services' = [services EXCEPT ![h][Provider(Kind(h))] = Some(r.svc)]
          /\ db' = [db EXCEPT ![h] = r.db]
          /\ follows' = IF r.db[sid].commits > 0
                        THEN commit(follows, r.db[sid].executed) ELSE follows
          /\ UNCHANGED <<comments, comment_tree, frames>>
    /\ IF exc[h] = None
       THEN /\ ret' = [ret EXCEPT ![h] = Some(Returned(h))]
            /\ pc' = [pc EXCEPT ![h] = "build_success"]
            /\ UNCHANGED exc
       ELSE /\ exc' = [exc EXCEPT ![h] = Some(Translate(Kind(h), req[h][1], exc[h][1]))]
            /\ pc' = [pc EXCEPT ![h] = "except"]
            /\ UNCHANGED ret
    /\ UNCHANGED <<status, result, req, calls, lastCall, callOps, regs, lastRead>>
    /\ callSvcOps' = [callSvcOps EXCEPT ![h] = @ + 1]
    /\ UNCHANGED <<qsVars, pVars, lVars>>

\* BaseEndpointHandler.receive: self._build_success_response(data)
BuildSuccess(h) ==
    /\ pc[h] = "build_success"
    /\ result' = [result EXCEPT ![h] = Some(build_success_response(Kind(h), ret[h][1]))]
    /\ pc' = [pc EXCEPT ![h] = "set_complete"]
    /\ UNCHANGED <<status, services, db, req, exc, ret, calls, lastCall, callOps, regs,
                   lastRead>>
    /\ UNCHANGED <<callSvcOps, qsVars, eVars, pVars, lVars>>

\* BaseEndpointHandler.receive: self._status = COMPLETE
SetComplete(h) ==
    /\ pc[h] = "set_complete"
    /\ status' = [status EXCEPT ![h] = COMPLETE]
    /\ pc' = [pc EXCEPT ![h] = "none"]
    /\ lastCall' = [lastCall EXCEPT ![h] = "returned"]
    /\ UNCHANGED <<result, services, db, req, exc, ret, calls, callOps, regs, lastRead>>
    /\ UNCHANGED <<callSvcOps, qsVars, eVars, pVars, lVars>>

\* the except clause with its two statements in the other order: the status is set
\* before the error response is built
ExceptStatusFirst(h) ==
    /\ pc[h] = "except"
    /\ IF Catches(exc[h][1])
       THEN /\ status' = [status EXCEPT ![h] = ERROR]
            /\ pc' = [pc EXCEPT ![h] = "set_error"]
            /\ UNCHANGED <<lastCall, result>>
       ELSE /\ pc' = [pc EXCEPT ![h] = "none"]
            /\ lastCall' = [lastCall EXCEPT ![h] = "raised"]
            /\ UNCHANGED <<result, status>>
    /\ UNCHANGED <<services, db, req, exc, ret, calls, callOps, regs, lastRead>>
    /\ UNCHANGED <<callSvcOps, qsVars, eVars, pVars, lVars>>

\* BaseEndpointHandler.receive: an exception leaves the try body; the except clause
\* builds the error response, or the exception leaves receive
Except(h) ==
    /\ pc[h] = "except"
    /\ IF Catches(exc[h][1])
       THEN /\ result' = [result EXCEPT ![h] = Some(build_error_response(Kind(h), exc[h][1]))]
            /\ pc' = [pc EXCEPT ![h] = "set_error"]
            /\ UNCHANGED lastCall
       ELSE /\ pc' = [pc EXCEPT ![h] = "none"]
            /\ lastCall' = [lastCall EXCEPT ![h] = "raised"]
            /\ UNCHANGED result
    /\ UNCHANGED <<status, services, db, req, exc, ret, calls, callOps, regs, lastRead>>
    /\ UNCHANGED <<callSvcOps, qsVars, eVars, pVars, lVars>>

\* BaseEndpointHandler.receive: self._status = ERROR
SetError(h) ==
    /\ pc[h] = "set_error"
    /\ status' = [status EXCEPT ![h] = ERROR]
    /\ pc' = [pc EXCEPT ![h] = "none"]
    /\ lastCall' = [lastCall EXCEPT ![h] = "returned"]
    /\ UNCHANGED <<result, services, db, req, exc, ret, calls, callOps, regs, lastRead>>
    /\ UNCHANGED <<callSvcOps, qsVars, eVars, pVars, lVars>>

----------------------------------------------------------------------------
(* The with-bodies of ConceptLineageHandler and AuthenticationHandler after *)
(* service.results.one() has returned a row                                *)

Focus(h) == req[h][1].identifier

\* lineage = Tree(); lineage.create_node(identifier=focus);
\* service.add_query(service.find_parent_ideas(identifier=focus, depth=10))
AddParents(h) ==
    /\ pc[h] = "add_parents"
    /\ lineage' = [lineage EXCEPT ![h] = create_node(Tree, Focus(h), NoParent).tree]
    /\ services' = [services EXCEPT ![h][Provider(Kind(h))] =
                        Some(add_query(Svc(h), Stmt("find_parent_ideas", Focus(h), LineageDepth)))]
    /\ pc' = [pc EXCEPT ![h] = "exec_parents"]
    /\ callSvcOps' = [callSvcOps EXCEPT ![h] = @ + 1]
    /\ UNCHANGED <<status, result, db, req, exc, ret, calls, lastCall, callOps, regs, lastRead>>
    /\ UNCHANGED <<fetched, links, qsVars, eVars, pVars>>

\* service.exec_next() of the ancestor query, on whatever concept_links holds
ExecParents(h) ==
    /\ pc[h] = "exec_parents"
    /\ \/ \E L \in LinkTables :
             LET found == find_parent_ideas(L, Focus(h), LineageDepth)
                 r == exec_next(Svc(h), db[h], [ok |-> TRUE, rows |-> Cardinality(found)])
             IN /\ services' = [services EXCEPT ![h][Provider(Kind(h))] = Some(r.svc)]
                /\ db' = [db EXCEPT ![h] = r.db]
                /\ links' = L
                /\ fetched' = [fetched EXCEPT ![h] = found]
                /\ pc' = [pc EXCEPT ![h] = IF found = {} THEN "add_children" ELSE "graft"]
                /\ UNCHANGED exc
       \/ LET r == exec_next(Svc(h), db[h], [ok |-> FALSE, rows |-> 0])
          IN /\ services' = [services EXCEPT ![h][Provider(Kind(h))] = Some(r.svc)]
             /\ db' = [db EXCEPT ![h] = r.db]
             /\ exc' = [exc EXCEPT ![h] = Some(Exc(r.err, <<r.err>>))]
             /\ pc' = [pc EXCEPT ![h] = "exit"]
             /\ UNCHANGED <<links, fetched>>
    /\ callSvcOps' = [callSvcOps EXCEPT ![h] = @ + 1]
    /\ UNCHANGED <<status, result, req, ret, calls, lastCall, callOps, regs, lastRead>>
    /\ UNCHANGED <<lineage, qsVars, eVars, pVars>>

\* one turn of `for parent in service.results.all()`: a new tree rooted at the
\* ancestor, the lineage so far pasted below it
Graft(h) ==
    /\ pc[h] = "graft"
    /\ \E parent \in NextRows(fetched[h]) :
          LET new_lineage == create_node(Tree, parent.ancestor, NoParent).tree
              r == paste(new_lineage, parent.ancestor, lineage[h])
              left == fetched[h] \ {parent}
          IN IF r.err = NoError
             THEN /\ lineage' = [lineage EXCEPT ![h] = r.tree]
                  /\ fetched' = [fetched EXCEPT ![h] = left]
                  /\ pc' = [pc EXCEPT ![h] = IF left = {} THEN "add_children" ELSE "graft"]
                  /\ UNCHANGED exc
             ELSE /\ exc' = [exc EXCEPT ![h] = Some(Exc(r.err, <<r.err>>))]
                  /\ pc' = [pc EXCEPT ![h] = "exit"]
                  /\ UNCHANGED <<lineage, fetched>>
    /\ UNCHANGED <<status, result, services, db, req, ret, calls, lastCall, callOps, regs,
                   lastRead>>
    /\ UNCHANGED <<callSvcOps, links, qsVars, eVars, pVars>>

\* service.add_query(service.find_child_ideas(identifier=focus, depth=10))
AddChildren(h) ==
    /\ pc[h] = "add_children"
    /\ services' = [services EXCEPT ![h][Provider(Kind(h))] =
                        Some(add_query(Svc(h), Stmt("find_child_ideas", Focus(h), LineageDepth)))]
    /\ pc' = [pc EXCEPT ![h] = "exec_children"]
    /\ callSvcOps' = [callSvcOps EXCEPT ![h] = @ + 1]
    /\ UNCHANGED <<status, result, db, req, exc, ret, calls, lastCall, callOps, regs, lastRead>>
    /\ UNCHANGED <<lVars, qsVars, eVars, pVars>>

\* service.exec_next() of the descendant query, on the same concept_links
ExecChildren(h) ==
    /\ pc[h] = "exec_children"
    /\ \E ok \in BOOLEAN :
          LET found == IF ok THEN find_child_ideas(links, Focus(h), LineageDepth) ELSE {}
              r == exec_next(Svc(h), db[h], [ok |-> ok, rows |-> Cardinality(found)])
          IN /\ services' = [services EXCEPT ![h][Provider(Kind(h))] = Some(r.svc)]
             /\ db' = [db EXCEPT ![h] = r.db]
             /\ IF r.err = NoError
                THEN /\ fetched' = [fetched EXCEPT ![h] = found]
                     /\ pc' = [pc EXCEPT ![h] = IF found = {} THEN "exit" ELSE "attach"]
                     /\ UNCHANGED exc
                ELSE /\ exc' = [exc EXCEPT ![h] = Some(Exc(r.err, <<r.err>>))]
                     /\ pc' = [pc EXCEPT ![h] = "exit"]
                     /\ UNCHANGED fetched
    /\ callSvcOps' = [callSvcOps EXCEPT ![h] = @ + 1]
    /\ UNCHANGED <<status, result, req, ret, calls, lastCall, callOps, regs, lastRead>>
    /\ UNCHANGED <<lineage, links, qsVars, eVars, pVars>>

\* one turn of `for child in service.results.all()`:
\* lineage.create_node(identifier=child.descendant, parent=child.ancestor)
Attach(h) ==
    /\ pc[h] = "attach"
    /\ \E child \in NextRows(fetched[h]) :
          LET r == create_node(lineage[h], child.descendant, child.ancestor)
              left == fetched[h] \ {child}
          IN IF r.err = NoError
             THEN /\ lineage' = [lineage EXCEPT ![h] = r.tree]
                  /\ fetched' = [fetched EXCEPT ![h] = left]
                  /\ pc' = [pc EXCEPT ![h] = IF left = {} THEN "exit" ELSE "attach"]
                  /\ UNCHANGED exc
             ELSE /\ exc' = [exc EXCEPT ![h] = Some(Exc(r.err, <<r.err>>))]
                  /\ pc' = [pc EXCEPT ![h] = "exit"]
                  /\ UNCHANGED <<lineage, fetched>>
    /\ UNCHANGED <<status, result, services, db, req, ret, calls, lastCall, callOps, regs,
                   lastRead>>
    /\ UNCHANGED <<callSvcOps, links, qsVars, eVars, pVars>>

\* AuthenticationHandler: self.__verify_credentials(request, result) on the row read
Verify(h) ==
    /\ pc[h] = "verify"
    /\ \E oracle \in Accounts(req[h][1].display_name) :
          /\ fetched' = [fetched EXCEPT ![h] = {oracle}]
          /\ exc' = [exc EXCEPT ![h] =
                        IF verify_credentials(req[h][1], oracle) THEN None
                        ELSE Some(Exc(InvalidCredentialsException,
                                      <<"Invalid display name or password">>))]
    /\ pc' = [pc EXCEPT ![h] = "exit"]
    /\ UNCHANGED <<status, result, services, db, req, ret, calls, lastCall, callOps, regs,
                   lastRead>>
    /\ UNCHANGED <<callSvcOps, lineage, links, qsVars, eVars, pVars>>

----------------------------------------------------------------------------
(* ConceptCommentsSectionHandler: __thread_starts, then __gather_responses  *)
(* for every comment gathered                                              *)

\* the statement EngagementDataService.comments_on builds: the comments on the concept
\* that respond to the given comment, or that respond to none (response_to 0)
comments_on(concept_id, response_to) == Stmt("comments_on", concept_id, response_to)

\* the rows Session.execute selects for that statement, oldest first
Responses(table, response_to) ==
    SelectSeq([c \in 1..Len(table) |-> c], LAMBDA c : table[c] = response_to)

\* the comment tables whose reply relation is a forest: every comment responds to an
\* older comment, or to none
Forests ==
    UNION {{t \in [1..n -> 0..MaxComments] : \A c \in 1..n : t[c] < c} : n \in 0..MaxComments}

\* ConceptComment(comment_id=...) appended to the responses of a comment (to the
\* threads of the section for 0)
ConceptComment(comment_id, under) == [comment_id |-> comment_id, under |-> under]

\* with self.get_service(ENGAGE_DS) as service: add_query(comments_on(...)) and
\* exec_next(), up to the point where the cursor is read
OpenScope(h, response_to) ==
    IF get_service(services[h], ENGAGE_DS).err # None
    THEN /\ exc' = [exc EXCEPT ![h] = get_service(services[h], ENGAGE_DS).err]
         /\ pc' = [pc EXCEPT ![h] = "except"]
         /\ UNCHANGED <<services, db>>
    ELSE \E o \in {[ok |-> FALSE, rows |-> 0],
                   [ok |-> TRUE, rows |-> Len(Responses(comments, response_to))]} :
            LET entered == enter(Svc(h), db[h])
                added == add_query(entered.svc,
                                   comments_on(req[h][1].identifier, response_to))
                r == exec_next(added, entered.db, o)
            IN /\ services' = [services EXCEPT ![h][ENGAGE_DS] = Some(r.svc)]
               /\ db' = [db EXCEPT ![h] = r.db]
               /\ exc' = [exc EXCEPT ![h] =
                             IF r.err = NoError THEN None ELSE Some(Exc(r.err, <<r.err>>))]
               /\ pc' = [pc EXCEPT ![h] = "with_body"]

\* _do_data_ops calls __thread_starts
ThreadStarts(h) ==
    /\ pc[h] = "do_data_ops"
    /\ OpenScope(h, 0)
    /\ frames' = <<[of |-> 0, rest |-> <<>>]>>
    /\ comment_tree' = <<>>
    /\ UNCHANGED <<status, result, req, ret, calls, lastCall, callOps, callSvcOps, regs,
                   lastRead>>
    /\ UNCHANGED <<qsVars, pVars, lVars, follows, comments>>

\* the with-block that keeps its scope open while the responses are gathered
LeaveScopeLater(h) ==
    /\ pc[h] = "with_body"
    /\ IF exc[h] = None
       THEN LET replies == Responses(comments, results(Svc(h))[1].stmt.b)
                under == frames[Len(frames)].of
            IN /\ comment_tree' = comment_tree \o
                      [i \in 1..Len(replies) |-> ConceptComment(replies[i], under)]
               /\ frames' = [frames EXCEPT ![Len(frames)].rest = replies]
               /\ pc' = [pc EXCEPT ![h] = "for"]
               /\ UNCHANGED <<services, db>>
       ELSE /\ services' = [services EXCEPT ![h][ENGAGE_DS] =
                                Some(exit(Svc(h), db[h], exc[h]).svc)]
            /\ db' = [db EXCEPT ![h] = exit(Svc(h), db[h], exc[h]).db]
            /\ pc' = [pc EXCEPT ![h] = "except"]
            /\ UNCHANGED <<comment_tree, frames>>
    /\ UNCHANGED <<status, result, req, exc, ret, calls, lastCall, callOps, callSvcOps,
                   regs, lastRead>>
    /\ UNCHANGED <<qsVars, pVars, lVars, follows, comments>>

\* the rest of the with-block: the rows of service.results.all() become the threads
\* (the responses of the current thread), and the block is left
LeaveScope(h) ==
    /\ pc[h] = "with_body"
    /\ services' = [services EXCEPT ![h][ENGAGE_DS] = Some(exit(Svc(h), db[h], exc[h]).svc)]
    /\ db' = [db EXCEPT ![h] = exit(Svc(h), db[h], exc[h]).db]
    /\ IF exc[h] = None
       THEN LET replies == Responses(comments, results(Svc(h))[1].stmt.b)
                under == frames[Len(frames)].of
            IN /\ comment_tree' = comment_tree \o
                      [i \in 1..Len(replies) |-> ConceptComment(replies[i], under)]
               /\ frames' = [frames EXCEPT ![Len(frames)].rest = replies]
               /\ pc' = [pc EXCEPT ![h] = "for"]
       ELSE /\ pc' = [pc EXCEPT ![h] = "except"]
            /\ UNCHANGED <<comment_tree, frames>>
    /\ UNCHANGED <<status, result, req, exc, ret, calls, lastCall, callOps, callSvcOps,
                   regs, lastRead>>
    /\ UNCHANGED <<qsVars, pVars, lVars, follows, comments>>

\* the for loop over the threads (the responses) calls __gather_responses for the next
GatherResponses(h) ==
    /\ pc[h] = "for"
    /\ frames[Len(frames)].rest # <<>>
    /\ OpenScope(h, Head(frames[Len(frames)].rest))
    /\ frames' = Append([frames EXCEPT ![Len(frames)].rest = Tail(@)],
                        [of |-> Head(frames[Len(frames)].rest), rest |-> <<>>])
    /\ UNCHANGED <<status, result, req, ret, calls, lastCall, callOps, callSvcOps, regs,
                   lastRead>>
    /\ UNCHANGED <<qsVars, pVars, lVars, follows, comments, comment_tree>>

\* the for loop is exhausted: __gather_responses returns to its caller, and
\* _do_data_ops returns the comment tree
Return(h) ==
    /\ pc[h] = "for"
    /\ frames[Len(frames)].rest = <<>>
    /\ frames' = SubSeq(frames, 1, Len(frames) - 1)
    /\ IF Len(frames) = 1
       THEN /\ ret' = [ret EXCEPT ![h] = Some(comment_tree)]
            /\ pc' = [pc EXCEPT ![h] = "build_success"]
       ELSE UNCHANGED <<ret, pc>>
    /\ UNCHANGED <<status, result, services, db, req, exc, calls, lastCall, callOps,
                   callSvcOps, regs, lastRead>>
    /\ UNCHANGED <<qsVars, pVars, lVars, follows, comments, comment_tree>>

\* no pure function has been given an input
PInitVars ==
    /\ raised = None /\ response = None
    /\ query = None /\ statement = None /\ matched = None

Init == QsInitVars /\ HInitVars /\ PInitVars /\ comments = <<>>

Next ==
    \E h \in Handlers :
        \/ UseService(h)
        \/ ReadResult(h)
        \/ Receive(h)
        \/ AuthError(h)
        \/ DoDataOps(h)
        \/ AddQuery(h)
        \/ ExecNext(h)
        \/ One(h)
        \/ Exit(h)
        \/ BuildSuccess(h)
        \/ SetComplete(h)
        \/ Except(h)
        \/ SetError(h)

Spec == Init /\ [][Next]_vars

NextQS == QsAddQuery \/ QsExecNext \/ QsEnter \/ QsExit

SpecQS == Init /\ [][NextQS]_vars

\* a route function serves its request with one handler instance of its own: it
\* calls use_service, receive and result on a handler only when no other one is in use
Alone(h) ==
    \A g \in (Retrievers \cup Erasers) \ {h} :
        calls[g] = 0 /\ regs[g] = 0 /\ lastRead[g] = NoRead

RouteUseService(h) == Alone(h) /\ UseServiceUpTo(h, MaxRouteRegs)
RouteReadResult(h) == Alone(h) /\ ReadResult(h)
RouteReceive(h) == Alone(h) /\ Receive(h)

NextRetrievers ==
    \E h \in Retrievers :
        \/ RouteUseService(h)
        \/ RouteReadResult(h)
        \/ RouteReceive(h)
        \/ DoDataOps(h)
        \/ AddQuery(h)
        \/ ExecNext(h)
        \/ One(h)
        \/ AddParents(h)
        \/ ExecParents(h)
        \/ Graft(h)
        \/ AddChildren(h)
        \/ ExecChildren(h)
        \/ Attach(h)
        \/ Verify(h)
        \/ Exit(h)
        \/ BuildSuccess(h)
        \/ SetComplete(h)
        \/ Except(h)
        \/ SetError(h)

SpecRetrievers == Init /\ [][NextRetrievers]_vars

\* ---- ConceptsDataService.query_concepts and the rows its statement selects
\* models.artifacts.FuzzyOption
FuzzyOption == {"NONE", "AUTHOR", "TITLE", "ALL"}

\* SQL LIKE of a text against a pattern; the percent sign stands for any run of characters
RECURSIVE Like(_, _)
Like(pattern, text) ==
    IF pattern = <<>> THEN text = <<>>
    ELSE IF Head(pattern) = "%"
    THEN Like(Tail(pattern), text) \/ (text # <<>> /\ Like(pattern, Tail(text)))
    ELSE text # <<>> /\ Head(text) = Head(pattern) /\ Like(Tail(pattern), Tail(text))

\* one comparison of the WHERE clause: column op :parameter
Predicate(op, value) == [op |-> op, value |-> value]

\* query_concepts with the fuzzy options AUTHOR and TITLE taken for each other
query_concepts_swapped(author, title, not_before, not_after, fuzzy) ==
    [author |-> Predicate(IF fuzzy \in {"ALL", "TITLE"} THEN "LIKE" ELSE "=", author),
     title |-> Predicate(IF fuzzy \in {"ALL", "AUTHOR"} THEN "LIKE" ELSE "=", title),
     updated_at |-> <<Predicate(">", not_before), Predicate("<", not_after)>>]

\* query_concepts whose window includes its start
query_concepts_from_start(author, title, not_before, not_after, fuzzy) ==
    [author |-> Predicate(IF fuzzy \in {"ALL", "AUTHOR"} THEN "LIKE" ELSE "=", author),
     title |-> Predicate(IF fuzzy \in {"ALL", "TITLE"} THEN "LIKE" ELSE "=", title),
     updated_at |-> <<Predicate(">=", not_before), Predicate("<", not_after)>>]

\* ConceptsDataService.query_concepts: the WHERE clause of
\* SELECT concepts.identifier FROM concepts
query_concepts(author, title, not_before, not_after, fuzzy) ==
    [author |-> Predicate(IF fuzzy \in {"ALL", "AUTHOR"} THEN "LIKE" ELSE "=", author),
     title |-> Predicate(IF fuzzy \in {"ALL", "TITLE"} THEN "LIKE" ELSE "=", title),
     updated_at |-> <<Predicate(">", not_before), Predicate("<", not_after)>>]

\* the value of one comparison for the value a row has in the column
Compare(column, p) ==
    CASE p.op = "=" -> column = p.value
      [] p.op = "LIKE" -> Like(p.value, column)
      [] p.op = ">" -> column > p.value
      [] p.op = ">=" -> column >= p.value
      [] p.op = "<" -> column < p.value
      [] OTHER -> FALSE

\* the WHERE clause of the statement for one row of concepts
Where(stmt, row) ==
    /\ Compare(row.author, stmt.author)
    /\ Compare(row.title, stmt.title)
    /\ \A i \in DOMAIN stmt.updated_at : Compare(row.updated_at, stmt.updated_at[i])

\* points in time
Times == 0..MaxTime

\* the rows of the concepts table
ConceptRows ==
    {[author |-> a, title |-> t, updated_at |-> u] :
        a \in {<<"a", "b">>, <<"a", "c">>}, t \in {<<"x">>}, u \in Times}

\* ConceptSearchQuery as the search route builds it
SearchQueries ==
    {[author |-> a, title |-> t, not_before |-> nb, not_after |-> na, fuzzy |-> f] :
        a \in {<<"a", "b">>, <<"a", "%">>}, t \in {<<"x">>, <<"%">>},
        nb \in Times, na \in Times, f \in FuzzyOption}

InitSearch ==
    /\ QsInitVars /\ HInitVars /\ comments = <<>>
    /\ raised = None /\ response = None
    /\ query \in {Some(q) : q \in SearchQueries}
    /\ statement = None /\ matched = None

\* service.query_concepts(author=..., title=..., not_before=..., not_after=..., fuzzy=...)
QueryConcepts ==
    /\ statement = None
    /\ statement' = Some(query_concepts(query[1].author, query[1].title,
                                        query[1].not_before, query[1].not_after,
                                        query[1].fuzzy))
    /\ UNCHANGED <<qsVars, eVars, hVars, lVars, raised, response, query, matched>>

\* the statement is executed and service.results.all() is read
ExecSearch ==
    /\ statement # None /\ matched = None
    /\ matched' = Some({row \in ConceptRows : Where(statement[1], row)})
    /\ UNCHANGED <<qsVars, eVars, hVars, lVars, raised, response, query, statement>>

NextSearch == QueryConcepts \/ ExecSearch

SpecSearch == InitSearch /\ [][NextSearch]_vars

\* ---- _build_error_response as a function of the class and the exception
Messages == {<<"Really obscure error">>, <<"Invalid token presented.">>}

InitMappers ==
    /\ QsInitVars /\ HInitVars /\ comments = <<>>
    /\ raised \in {Some([cls |-> c, exc |-> Exc(t, m)]) :
                        c \in HandlerClasses, t \in DomainErrors, m \in Messages}
    /\ response = None
    /\ query = None /\ statement = None /\ matched = None

\* the except clause of receive: self._build_error_response(err)
BuildErrorResponse ==
    /\ response = None
    /\ response' = Some(build_error_response(raised[1].cls, raised[1].exc))
    /\ UNCHANGED <<qsVars, eVars, hVars, lVars, raised, query, statement, matched>>

NextMappers == BuildErrorResponse

SpecMappers == InitMappers /\ [][NextMappers]_vars

\* the second unfollow request is handled once the first one is over
InTurn(h) ==
    IF h = "h1"
    THEN calls["h7"] = 0 /\ regs["h7"] = 0 /\ lastRead["h7"] = NoRead
    ELSE calls["h1"] = 1 /\ pc["h1"] = "none"

\* the route stop_following: create_handler registers the engagement service on the
\* new handler, receive is called on it once, and its result is read
TurnUseService(h) == InTurn(h) /\ calls[h] = 0 /\ UseService(h)
TurnReceive(h) ==
    InTurn(h) /\ calls[h] = 0 /\ services[h][ENGAGE_DS] # None /\ Receive(h)
TurnReadResult(h) == InTurn(h) /\ calls[h] = 1 /\ ReadResult(h)

\* (with the service registered and the gate passed, _do_data_ops raises no exception
\* that receive catches, so the assignment of ERROR after the except clause is not a step)
NextUnfollow ==
    \E h \in Unfollowers :
        \/ TurnUseService(h)
        \/ TurnReceive(h)
        \/ TurnReadResult(h)
        \/ AuthError(h)
        \/ DoDataOps(h)
        \/ AddQuery(h)
        \/ ExecNext(h)
        \/ Exit(h)
        \/ BuildSuccess(h)
        \/ SetComplete(h)
        \/ Except(h)

SpecUnfollow == Init /\ [][NextUnfollow]_vars

\* the requested concept has any forest of comments
InitComments == QsInitVars /\ HInitVars /\ PInitVars /\ comments \in Forests

NextComments ==
    \E h \in Gatherers :
        \/ RouteUseService(h)
        \/ RouteReadResult(h)
        \/ RouteReceive(h)
        \/ ThreadStarts(h)
        \/ LeaveScope(h)
        \/ GatherResponses(h)
        \/ Return(h)
        \/ BuildSuccess(h)
        \/ SetComplete(h)
        \/ Except(h)
        \/ SetError(h)

\* the steps of a receive call in progress
Running(h) ==
    \/ ThreadStarts(h)
    \/ LeaveScope(h)
    \/ GatherResponses(h)
    \/ Return(h)
    \/ BuildSuccess(h)
    \/ SetComplete(h)
    \/ Except(h)
    \/ SetError(h)

\* a call of receive is run to its end by the thread that made it
SpecComments ==
    InitComments /\ [][NextComments]_vars /\ \A h \in Gatherers : WF_vars(Running(h))

NextErasers ==
    \E h \in Erasers :
        \/ RouteUseService(h)
        \/ RouteReadResult(h)
        \/ RouteReceive(h)
        \/ AuthError(h)
        \/ DoDataOps(h)
        \/ AddQuery(h)
        \/ ExecNext(h)
        \/ Exit(h)
        \/ BuildSuccess(h)
        \/ SetComplete(h)
        \/ Except(h)
        \/ SetError(h)

SpecErasers == Init /\ [][NextErasers]_vars

----------------------------------------------------------------------------
(* The claims *)

Terminal == {COMPLETE, ERROR}

\* C1: on every handler, gated or not, the second receive call (and any later one)
\* fails with HandlerNotIdle, whatever its token and whatever the first call's outcome.
C1_SecondReceiveFails ==
    \A h \in Handlers : calls[h] >= 2 => lastCall[h] = HandlerNotIdleException

\* C2: the status of a handler only changes along IDLE -> PROCESSING -> COMPLETE or
\* IDLE -> PROCESSING -> ERROR.
C2_ForwardPathOnly ==
    [][\A h \in Handlers :
          status'[h] # status[h] =>
              <<status[h], status'[h]>> \in {<<IDLE, PROCESSING>>, <<PROCESSING, COMPLETE>>,
                                            <<PROCESSING, ERROR>>}]_vars

\* C3: once a handler is COMPLETE or ERROR, no later operation changes its result.
C3_ResultImmutable ==
    [][\A h \in Handlers : status[h] \in Terminal => result'[h] = result[h]]_vars

\* the request's token cannot be validated, or names another identity than the presenter
Unauthorized(r) ==
    \/ ~r.auth_token.token.signed
    \/ r.auth_token.token.username # r.auth_token.presenter

NotAuthorizedMessage(r) ==
    IF ~r.auth_token.token.signed
    THEN <<"Invalid token presented.">>
    ELSE <<"Cannot verify ownership of token.">>

\* C4: a gated handler given a request whose token is invalid or not the presenter's
\* stores the 401 result with the NotAuthorized message, ends in ERROR, and never
\* invokes _do_data_ops nor any QueryService operation for that request.
C4_UnauthorizedNeverRunsDataOps ==
    \A h \in Handlers :
        (Gated(Kind(h)) /\ req[h] # None /\ Unauthorized(req[h][1])) =>
            /\ callOps[h] = 0
            /\ callSvcOps[h] = 0
            /\ pc[h] \in {"auth_error", "none"}
            /\ result[h] = Some(EndpointResponse(HTTP_401_UNAUTHORIZED,
                                   EndpointErrorMessage(NotAuthorizedMessage(req[h][1]))))
            /\ (pc[h] = "none" => status[h] = ERROR /\ lastCall[h] = "returned")

\* a signed token of another account than the presenter was refused, the call is over
C4_Witness ==
    \E h \in Handlers :
        /\ Gated(Kind(h)) /\ req[h] # None /\ pc[h] = "none"
        /\ req[h][1].auth_token.token.signed
        /\ req[h][1].auth_token.token.username # req[h][1].auth_token.presenter
        /\ status[h] = ERROR /\ services[h][ENGAGE_DS] # None

\* C5: reading result raises PrematureResultRetrieval in IDLE and PROCESSING (also a
\* handler left in PROCESSING by a fatal exception) and returns the stored result in
\* COMPLETE and ERROR.
C5_ResultReadableOnlyWhenFinished ==
    \A h \in Handlers :
        lastRead[h] # NoRead =>
            IF status[h] \in Terminal
            THEN lastRead[h] = [err |-> NoError, value |-> result[h]] /\ result[h] # None
            ELSE lastRead[h] = [err |-> PrematureResultRetrievalException, value |-> None]

\* one handler was read while left in PROCESSING, the other after it finished
C5_Witness ==
    \E h, g \in Handlers :
        /\ status[h] = PROCESSING /\ pc[h] = "none" /\ lastCall[h] = "raised"
        /\ lastRead[h].err = PrematureResultRetrievalException
        /\ status[g] \in Terminal /\ lastRead[g].err = NoError

\* C6: a receive call on an IDLE handler ends in COMPLETE with the success result
\* built from the value _do_data_ops returned when nothing was raised, and in ERROR
\* with the error result built from the exception when a domain exception was raised;
\* the result is stored before the status becomes terminal.
C6_Outcome ==
    \A h \in Handlers :
        (calls[h] = 1 /\ pc[h] = "none" /\ lastCall[h] = "returned") =>
            IF exc[h] = None
            THEN /\ status[h] = COMPLETE
                 /\ ret[h] # None
                 /\ result[h] = Some(build_success_response(Kind(h), ret[h][1]))
            ELSE /\ status[h] = ERROR
                 /\ exc[h][1].type \in DomainErrors
                 /\ result[h] = Some(build_error_response(Kind(h), exc[h][1]))

C6_StoredFirst ==
    \A h \in Handlers :
        (calls[h] = 1 /\ status'[h] # status[h] /\ status'[h] \in Terminal) =>
            /\ result[h] # None
            /\ result'[h] = result[h]

C6_ReceiveOnIdle == [](C6_Outcome) /\ [][C6_StoredFirst]_vars

\* the first call on one handler ended in ERROR with 404, on the other in COMPLETE
C6_Witness ==
    \E h, g \in Handlers :
        /\ calls[h] = 1 /\ pc[h] = "none" /\ status[h] = ERROR
        /\ result[h][1].code = HTTP_404_NOT_FOUND
        /\ calls[g] = 1 /\ pc[g] = "none" /\ status[g] = COMPLETE
        /\ result[g][1].code = HTTP_200_OK

\* C7: an exception of _do_data_ops outside the domain taxonomy leaves receive: no
\* result is stored, the handler stays in PROCESSING, and every later receive on it
\* fails with HandlerNotIdle.
C7_LeftProcessing ==
    \A h \in Handlers :
        lastCall[h] = "raised" =>
            /\ exc[h] # None /\ exc[h][1].type \notin DomainErrors
            /\ status[h] = PROCESSING /\ result[h] = None

C7_LaterReceives ==
    \A h \in Handlers :
        (status[h] = PROCESSING /\ pc[h] = "none") =>
            /\ status'[h] = PROCESSING
            /\ result'[h] = None
            /\ (calls'[h] # calls[h] => lastCall'[h] = HandlerNotIdleException)

C7_FatalPropagates == [](C7_LeftProcessing) /\ [][C7_LaterReceives]_vars

\* C8: leaving a scope commits the session exactly when the body raised nothing and
\* rolls it back otherwise; either way the session is closed and the service has none.
C8_ExitStep ==
    (qsOps' = qsOps + 1 /\ qsLast'.op = "exit" /\ qs.session # None) =>
        LET sid == qs.session[1]
        IN /\ qs'.session = None
           /\ qsDb'[sid].closed
           /\ IF qsLast'.arg = None
              THEN /\ qsDb'[sid].commits = qsDb[sid].commits + 1
                   /\ qsDb'[sid].rollbacks = qsDb[sid].rollbacks
              ELSE /\ qsDb'[sid].rollbacks = qsDb[sid].rollbacks + 1
                   /\ qsDb'[sid].commits = qsDb[sid].commits

C8_CommitOrRollback == [][C8_ExitStep]_vars

\* a scope that executed a statement was left by an exception and rolled back
C8_Witness ==
    /\ qsLast.op = "exit" /\ qsLast.arg # None /\ qsLast.err = NoError
    /\ \E i \in DOMAIN qsDb :
          /\ qsDb[i].closed /\ qsDb[i].rollbacks = 1 /\ qsDb[i].commits = 0
          /\ Len(qsDb[i].executed) > 0

\* C9: exec_next without an open session raises NoSessionToQueryOn, and inside an
\* open scope with an empty buffer NoQueryToRun; neither executes a statement.
C9_ExecStep ==
    (qsOps' = qsOps + 1 /\ qsLast'.op = "exec_next") =>
        /\ qs.session = None =>
              qsLast'.err = NoSessionToQueryOnError /\ qsDb' = qsDb
        /\ (qs.session # None /\ qs.buffer = <<>>) =>
              qsLast'.err = NoQueryToRunError /\ qsDb' = qsDb

C9_ExecNextGuards == [][C9_ExecStep]_vars

\* exec_next was refused inside an open scope whose buffer is empty
C9_Witness ==
    /\ qsLast.op = "exec_next" /\ qsLast.err = NoQueryToRunError
    /\ qs.session # None /\ qs.buffer = <<>>

\* C10: for any sequence of operations, at most one session of a service is open at
\* any time, every session has exactly one commit or one rollback by the time it is
\* closed and is closed once the service lets go of it, and no statement is executed
\* without an open session.
C10_OneSessionOneOutcome ==
    /\ Cardinality({i \in DOMAIN qsDb : ~qsDb[i].closed}) <= 1
    /\ \A i \in DOMAIN qsDb :
          /\ qsDb[i].closed => qsDb[i].commits + qsDb[i].rollbacks = 1
          /\ ~qsDb[i].closed => (qs.session = Some(i) /\ qsDb[i].commits + qsDb[i].rollbacks = 0)
    /\ (qsLast.op = "exec_next" /\ qsLast.err = NoError) => qs.session # None

----------------------------------------------------------------------------
(* QueryService buffer and cursor: C11, C12 *)

RECURSIVE IsSubseq(_, _)
\* a can be obtained from b by deleting elements
IsSubseq(a, b) ==
    IF a = <<>> THEN TRUE
    ELSE IF b = <<>> THEN FALSE
    ELSE IF Head(a) = Head(b) THEN IsSubseq(Tail(a), Tail(b))
    ELSE IsSubseq(a, Tail(b))

RECURSIVE ExecutedUpTo(_, _)
\* the statements executed on the first n sessions, in execution order
ExecutedUpTo(d, n) == IF n = 0 THEN <<>> ELSE ExecutedUpTo(d, n - 1) \o d[n].executed

\* statements taken out of the buffer so far
QsTaken == Len(qsAdded) - Len(qs.buffer)

\* C11: add_query only appends to the buffer and executes nothing; a successful
\* exec_next removes and executes the oldest buffered statement; so the buffer is
\* always the not yet taken tail of the added statements, and the executed
\* statements are, in order and each at most once, among the taken ones.
C11_Step ==
    /\ (qsOps' = qsOps + 1 /\ qsLast'.op = "add_query") =>
          /\ qs'.buffer = Append(qs.buffer, qsLast'.arg[1])
          /\ qsDb' = qsDb /\ qs'.results = qs.results /\ qs'.session = qs.session
    /\ (qsOps' = qsOps + 1 /\ qsLast'.op = "exec_next" /\ qsLast'.err = NoError) =>
          /\ qs.buffer # <<>>
          /\ qs'.buffer = Tail(qs.buffer)
          /\ ExecutedUpTo(qsDb', Len(qsDb')) =
                Append(ExecutedUpTo(qsDb, Len(qsDb)), Head(qs.buffer))

C11_Fifo ==
    /\ QsTaken >= 0
    /\ qs.buffer = SubSeq(qsAdded, QsTaken + 1, Len(qsAdded))
    /\ IsSubseq(ExecutedUpTo(qsDb, Len(qsDb)), SubSeq(qsAdded, 1, QsTaken))

C11_FifoOrder == [](C11_Fifo) /\ [][C11_Step]_vars

\* two different statements were added and both executed, in the order added
C11_Witness ==
    /\ Len(qsAdded) = 2 /\ qsAdded[1] # qsAdded[2]
    /\ qs.buffer = <<>>
    /\ ExecutedUpTo(qsDb, Len(qsDb)) = qsAdded

\* the sessions that executed at least one statement
SessionsUsed(d) == {i \in DOMAIN d : d[i].executed # <<>>}

\* the session that executed a statement most recently (sessions are used one after
\* the other, a later one never before an earlier one)
LastUsed(d) == CHOOSE i \in SessionsUsed(d) : \A j \in SessionsUsed(d) : j <= i

\* C12 as stated: while the scope is open the results accessor exposes the cursor of
\* the statement executed most recently, and once the scope has closed it exposes no
\* cursor.
C12_ClearedOnClose ==
    /\ qs.session = None => results(qs) = None
    /\ (qs.session # None /\ results(qs) # None) =>
          LET ex == ExecutedUpTo(qsDb, Len(qsDb))
          IN ex # <<>> /\ results(qs)[1].stmt = ex[Len(ex)]

\* C12 amended: the results accessor exposes no cursor until a statement has been
\* executed successfully, and from then on the cursor of the statement executed
\* successfully most recently, on whichever session that was; leaving the scope and
\* entering another one do not change what it exposes.
C12_Last ==
    LET ex == ExecutedUpTo(qsDb, Len(qsDb))
    IN IF ex = <<>>
       THEN results(qs) = None
       ELSE /\ results(qs) # None
            /\ results(qs)[1].stmt = ex[Len(ex)]
            /\ results(qs)[1].sess = LastUsed(qsDb)

C12_Step ==
    (qsOps' = qsOps + 1 /\ qsLast'.op \in {"exit", "enter", "add_query"}) =>
        results(qs') = results(qs)

C12_LastCursorKept == [](C12_Last) /\ [][C12_Step]_vars

\* the scope has been left and the accessor still exposes the cursor obtained in it
C12_Witness ==
    /\ qsLast.op = "exit" /\ qsLast.err = NoError /\ qs.session = None
    /\ results(qs) # None /\ qsDb[results(qs)[1].sess].closed

----------------------------------------------------------------------------
(* Scopes of a handler: C13 *)

\* no session a provider of h has created is open, and no provider holds one
NoOpenSession(h) ==
    /\ \A i \in DOMAIN db[h] : db[h][i].closed
    /\ \A n \in ServiceNames : services[h][n] # None => services[h][n][1].session = None

\* C13: whenever a receive call of a handler has returned or raised, whatever the data
\* operation did, no session opened by that handler is still open; in particular a
\* handler in COMPLETE or ERROR has no open session.
C13_ScopeTornDown ==
    \A h \in Handlers :
        /\ (pc[h] = "none" /\ calls[h] > 0) => NoOpenSession(h)
        /\ status[h] \in {COMPLETE, ERROR} => NoOpenSession(h)

\* a receive call ended by a fatal exception after its scope executed a statement
\* and was rolled back and closed
C13_Witness ==
    \E h \in Handlers :
        /\ pc[h] = "none" /\ lastCall[h] = "raised" /\ status[h] = PROCESSING
        /\ Len(db[h]) = 1 /\ db[h][1].closed /\ db[h][1].rollbacks = 1
        /\ Len(db[h][1].executed) = 1

----------------------------------------------------------------------------
(* The lineage tree: C14 .. C17 *)

LineageHandler == "h3"

\* the lineage handler has returned a tree: it is the body of its 200 result
TreeReturned ==
    /\ status[LineageHandler] = COMPLETE
    /\ result[LineageHandler] =
          Some(EndpointResponse(HTTP_200_OK,
                                ConceptLineage(size(lineage[LineageHandler]),
                                               to_dict(lineage[LineageHandler]))))

\* the receive call that built and returned the tree is the handler's last call,
\* so req still holds the request the tree was built for
JustReturned == status[LineageHandler] = COMPLETE /\ lastCall[LineageHandler] = "returned"

RECURSIVE Level(_, _)
\* the number of links between a node of a tree and the tree's root
Level(t, id) ==
    LET n == CHOOSE m \in t : m.id = id
    IN IF n.parent = NoParent THEN 0 ELSE 1 + Level(t, n.parent)

\* C14: for a focus with a chain of k ancestors and m direct descendants the lineage
\* tree has exactly 1+k+m nodes, its only root is the most distant ancestor (the focus
\* when k = 0), every ancestor is the parent of the next nearer one and the nearest
\* the parent of the focus, and the focus has exactly the m descendants as children.
C14_ChainAndChildren ==
    \A k \in 0..MaxAnc, m \in 0..MaxKids :
        (JustReturned /\ links = ChainStar(k, m)
            /\ Focus(LineageHandler) = k + 1) =>
            LET t == lineage[LineageHandler]
            IN /\ TreeReturned
               /\ size(t) = 1 + k + m
               /\ result[LineageHandler][1].body.nodes = 1 + k + m
               /\ Roots(t) = {1}
               /\ \A i \in 1..k : Node(i + 1, i) \in t
               /\ Children(t, k + 1) = {k + 1 + j : j \in 1..m}
               /\ \A j \in 1..m : Children(t, k + 1 + j) = {}

\* the spec's case: two ancestors and two direct descendants give five nodes
C14_Witness ==
    /\ TreeReturned /\ JustReturned /\ links = ChainStar(2, 2) /\ Focus(LineageHandler) = 3
    /\ size(lineage[LineageHandler]) = 5
    /\ Roots(lineage[LineageHandler]) = {1}
    /\ Cardinality(Children(lineage[LineageHandler], 3)) = 2

\* C15: every lineage tree the handler returns, whatever acyclic concept_links the
\* queries ran on, has exactly one root and holds no identifier twice.
C15_OneRootNoDuplicate ==
    status[LineageHandler] = COMPLETE =>
        LET t == lineage[LineageHandler]
        IN /\ TreeReturned
           /\ Cardinality(Roots(t)) = 1
           /\ Cardinality(to_dict(t)) = 1
           /\ \A n \in t, m \in t : n.id = m.id => n = m

\* a tree was returned for a focus that has two parents
C15_Witness ==
    /\ TreeReturned /\ JustReturned
    /\ Cardinality({e \in links : e[2] = Focus(LineageHandler)}) = 2
    /\ size(lineage[LineageHandler]) = 3

\* C16 as stated: in every returned tree the distance from the root to any node is
\* at most the maximum depth of 10.
C16_DepthAtMostTen ==
    status[LineageHandler] = COMPLETE =>
        \A n \in lineage[LineageHandler] : Level(lineage[LineageHandler], n.id) <= LineageDepth

\* C16 amended: in every returned tree no node is more than 10 links below the focus,
\* and the focus is as many links below the root as the ancestor query returned rows;
\* the distance from the root to a node is bounded by that number plus 10.
C16_DepthBelowFocus ==
    JustReturned =>
        LET t == lineage[LineageHandler]
            f == Focus(LineageHandler)
        IN /\ Level(t, f) = Cardinality(find_parent_ideas(links, f, LineageDepth))
           /\ \A n \in t : Level(t, n.id) <= Level(t, f) + LineageDepth

\* a returned tree with one ancestor above the focus and a node 10 links below it
C16_Witness ==
    /\ TreeReturned /\ JustReturned
    /\ Level(lineage[LineageHandler], Focus(LineageHandler)) = 1
    /\ \E n \in lineage[LineageHandler] :
          Level(lineage[LineageHandler], n.id) = LineageDepth + 1

\* C17: the descendant rows are attached in the order of the query (increasing
\* depth), so the ancestor of the row attached next is always a node of the tree
\* already, and no attachment fails for a missing parent.
C17_ParentPresent ==
    \A h \in Retrievers :
        /\ pc[h] = "attach" => \A r \in NextRows(fetched[h]) : r.ancestor \in Ids(lineage[h])
        /\ exc[h] # None => exc[h][1].type # NodeIDAbsentError

\* the row attached next hangs below a descendant attached before
C17_Witness ==
    /\ pc[LineageHandler] = "attach"
    /\ \E r \in NextRows(fetched[LineageHandler]) :
          r.depth = 2 /\ r.ancestor # Focus(LineageHandler)
             /\ r.ancestor \in Ids(lineage[LineageHandler])

----------------------------------------------------------------------------
(* Lookups of exactly one row: C18 .. C20 *)

ConceptHandlers == {"h3", "h4"}

\* the cursor of h's provider is the one of the concept lookup, with n rows
LookupFound(h, n) ==
    /\ services[h][Provider(Kind(h))] # None
    /\ results(Svc(h)) # None
    /\ results(Svc(h))[1].stmt.op = "find_exact_concept"
    /\ results(Svc(h))[1].rows = n

\* C18: when the lookup of the focus concept returns no row the lineage handler
\* enqueues and executes neither the ancestor nor the descendant query, rolls its
\* scope back and ends in ERROR with a 404 result; the specific-concept handler
\* likewise ends in ERROR with 404 when the concept does not exist.
C18_NotFound ==
    \A h \in ConceptHandlers :
        LookupFound(h, 0) =>
            /\ pc[h] \in {"one", "exit", "except", "set_error", "none"}
            /\ Svc(h).buffer = <<>>
            /\ \A i \in DOMAIN db[h] :
                  /\ Len(db[h][i].executed) <= 1
                  /\ \A j \in DOMAIN db[h][i].executed :
                        db[h][i].executed[j].op = "find_exact_concept"
            /\ pc[h] = "none" =>
                  LET sid == results(Svc(h))[1].sess
                  IN /\ status[h] = ERROR
                     /\ result[h] # None
                     /\ result[h][1].code = HTTP_404_NOT_FOUND
                     /\ result[h][1].body.kind = "EndpointErrorMessage"
                     /\ lastCall[h] = "returned" =>
                           result[h][1].body.msg =
                               Translate(Kind(h), req[h][1], Exc(NoResultFound, <<>>)).msg
                     /\ db[h][sid].closed
                     /\ db[h][sid].rollbacks = 1 /\ db[h][sid].commits = 0

\* the lineage handler has ended in ERROR with 404 after a lookup without a row
C18_Witness ==
    /\ LookupFound(LineageHandler, 0)
    /\ pc[LineageHandler] = "none" /\ status[LineageHandler] = ERROR
    /\ result[LineageHandler][1].code = HTTP_404_NOT_FOUND
    /\ result[LineageHandler][1].body.msg = <<"Could not build the lineage for ", "7">>
    /\ Len(db[LineageHandler]) = 1 /\ db[LineageHandler][1].rollbacks = 1

\* the cursor of h's provider is the one of h's single-row lookup, with n rows
SingleRowLookup(h, n) ==
    /\ services[h][Provider(Kind(h))] # None
    /\ results(Svc(h)) # None
    /\ results(Svc(h))[1].stmt.op \in {"find_exact_concept", "fetch_authentication_information"}
    /\ results(Svc(h))[1].rows = n

\* the code of the domain error result of a failed lookup
NotFoundCode(kind) ==
    IF kind = "AuthenticationHandler" THEN HTTP_401_UNAUTHORIZED ELSE HTTP_404_NOT_FOUND

EndedNotFound(h) ==
    /\ status[h] = ERROR
    /\ result[h] # None /\ result[h][1].code = NotFoundCode(Kind(h))
    /\ lastCall[h] # "raised"

\* C19 as stated: in every handler that requires exactly one row, a lookup of zero
\* rows and a lookup of more than one row both end in the handler's domain error
\* result (404, or 401 for authentication) and not in a fatal exception.
C19_ZeroOrSeveralNotFound ==
    \A h \in Retrievers :
        \A n \in (0..MaxRows) \ {1} :
            (pc[h] = "none" /\ SingleRowLookup(h, n)) => EndedNotFound(h)

\* C19 amended: a lookup of zero rows ends in the handler's domain error result (404,
\* or 401 for authentication); a lookup of more than one row raises
\* MultipleResultsFound, which no handler catches: the scope is rolled back, the
\* exception leaves receive, and the handler stays in PROCESSING without a result.
C19_ZeroNotFoundSeveralFatal ==
    \A h \in Retrievers :
        /\ (pc[h] = "none" /\ SingleRowLookup(h, 0)) => EndedNotFound(h)
        /\ \A n \in 2..MaxRows :
              SingleRowLookup(h, n) =>
                  /\ pc[h] \in {"one", "exit", "except", "none"}
                  /\ pc[h] = "except" => exc[h][1].type = MultipleResultsFound
                  /\ pc[h] = "none" =>
                        LET sid == results(Svc(h))[1].sess
                        IN /\ status[h] = PROCESSING /\ result[h] = None
                           /\ lastCall[h] \in {"raised", HandlerNotIdleException}
                           /\ db[h][sid].closed
                           /\ db[h][sid].rollbacks = 1 /\ db[h][sid].commits = 0

\* a lookup of two rows has ended a receive call by a fatal exception
C19_Witness ==
    \E h \in Retrievers :
        /\ SingleRowLookup(h, 2) /\ pc[h] = "none" /\ lastCall[h] = "raised"
        /\ status[h] = PROCESSING /\ result[h] = None

AuthenticationHandler == "h5"

\* the first receive call of the authentication handler has returned after its
\* lookup found one account row, kept in fetched
Authenticated(oracle) ==
    /\ pc[AuthenticationHandler] = "none" /\ lastCall[AuthenticationHandler] = "returned"
    /\ fetched[AuthenticationHandler] = {oracle}

\* the session of the authentication handler's one scope
AuthSession == db[AuthenticationHandler][Len(db[AuthenticationHandler])]

\* C20: authenticating with a display name whose stored salted hash matches the
\* submitted password ends in COMPLETE with 200 and a token whose presenter is the
\* submitted display name; a password whose hash does not match ends in ERROR with
\* 401 and the message "Invalid display name or password", the scope rolled back.
C20_Authenticate ==
    \A oracle \in UNION {Accounts(u) : u \in Users} :
        Authenticated(oracle) =>
            LET r == req[AuthenticationHandler][1]
            IN IF oracle.password_hash = r.password \o oracle.salt_value
               THEN /\ status[AuthenticationHandler] = COMPLETE
                    /\ result[AuthenticationHandler][1].code = HTTP_200_OK
                    /\ result[AuthenticationHandler][1].body.presenter = r.display_name
                    /\ result[AuthenticationHandler][1].body.token.username = r.display_name
                    /\ AuthSession.closed /\ AuthSession.commits = 1
                    /\ AuthSession.rollbacks = 0
               ELSE /\ status[AuthenticationHandler] = ERROR
                    /\ result[AuthenticationHandler] =
                          Some(EndpointResponse(HTTP_401_UNAUTHORIZED,
                                 EndpointErrorMessage(<<"Invalid display name or password">>)))
                    /\ AuthSession.closed /\ AuthSession.rollbacks = 1
                    /\ AuthSession.commits = 0

\* a wrong password for an existing account was refused with 401, the scope rolled back
C20_Witness ==
    \E oracle \in Accounts("alice") :
        /\ Authenticated(oracle)
        /\ req[AuthenticationHandler][1].display_name = "alice"
        /\ oracle.password_hash # req[AuthenticationHandler][1].password \o oracle.salt_value
        /\ status[AuthenticationHandler] = ERROR
        /\ result[AuthenticationHandler][1].code = HTTP_401_UNAUTHORIZED
        /\ AuthSession.rollbacks = 1 /\ Len(AuthSession.executed) = 1

----------------------------------------------------------------------------
(* C21: unmapped domain exceptions of a gated handler                      *)

\* the request of the receive call in progress, or of the last one, passed the gate
Authorized(h) == req[h] # None /\ check_if_authorized(req[h][1].auth_token) = None

\* the data operation of that call raised a domain exception the gate does not map
UnmappedRaised(h) ==
    /\ exc[h] # None
    /\ IsDomain(exc[h][1].type)
    /\ exc[h][1].type # NotAuthorizedError

\* C21: when the authorization check of a gated handler passes and its data operation
\* raises a domain exception that the handler does not map, the result is the 500
\* response whose error body is exactly the message of the exception, and the receive
\* call returns with the handler in ERROR.
C21_UnmappedIs500 ==
    \A h \in Erasers :
        (/\ Authorized(h)
         /\ UnmappedRaised(h)
         /\ (pc[h] = "set_error" \/ lastCall[h] = "returned"))
        => /\ result[h] = Some(EndpointResponse(HTTP_500_INTERNAL_SERVER_ERROR,
                                                EndpointErrorMessage(exc[h][1].msg)))
           /\ (lastCall[h] = "returned" => status[h] = ERROR)

\* an authorized unlike request whose data operation found no provider has returned
C21_Witness ==
    /\ Authorized("h6")
    /\ UnmappedRaised("h6")
    /\ lastCall["h6"] = "returned"
    /\ status["h6"] = ERROR
    /\ result["h6"][1].code = HTTP_500_INTERNAL_SERVER_ERROR
    /\ result["h6"][1].body.msg = <<"No service registered under ", ENGAGE_DS>>

----------------------------------------------------------------------------
(* C22: the two eraser handlers on their success path                      *)

\* the message of the 200 response of each eraser class for request r
ErasedMessage(kind, r) ==
    IF kind = "StopFollowingAccountHandler"
    THEN <<r.follower, " is no longer following ", r.followee>>
    ELSE <<r.user_liking, " no longer likes ", ToString(r.concept_liked)>>

\* the statement each eraser class runs for request r
ErasingStatement(kind, r) ==
    IF kind = "StopFollowingAccountHandler"
    THEN Stmt("revoke_following", r.follower, r.followee)
    ELSE Stmt("revoke_liking", r.user_liking, r.concept_liked)

\* h opened one scope, which executed the one statement of the request, was
\* committed once, never rolled back, and is closed; nothing is left enqueued
OneCommittedScope(h) ==
    /\ Len(db[h]) = 1
    /\ db[h][1].executed = <<ErasingStatement(Kind(h), req[h][1])>>
    /\ db[h][1].commits = 1 /\ db[h][1].rollbacks = 0 /\ db[h][1].closed
    /\ Svc(h).buffer = <<>> /\ Svc(h).session = None

\* C22: an authorized unfollow (unlike) request whose receive call returns without an
\* exception of the data operation leaves the handler COMPLETE with the 200 response
\* carrying "<follower> is no longer following <followee>" ("<user> no longer likes
\* <concept>"); exactly one statement was enqueued and executed in one scope, and that
\* scope is committed and closed before the response is built and the handler
\* becomes COMPLETE.
C22_ErasersSucceed ==
    \A h \in Erasers :
        /\ (lastCall[h] = "returned" /\ Authorized(h))
           => (status[h] = COMPLETE \/ UnmappedRaised(h))
        /\ (lastCall[h] = "returned" /\ status[h] = COMPLETE)
           => /\ Authorized(h)
              /\ result[h] = Some(EndpointResponse(HTTP_200_OK,
                    EndpointInformationalMessage(ErasedMessage(Kind(h), req[h][1]))))
        /\ (pc[h] \in {"build_success", "set_complete"}
            \/ (lastCall[h] = "returned" /\ status[h] = COMPLETE))
           => OneCommittedScope(h)

\* an unlike request of alice for concept 2 has completed
C22_Witness ==
    /\ status["h6"] = COMPLETE /\ lastCall["h6"] = "returned"
    /\ req["h6"][1].user_liking = "alice" /\ req["h6"][1].concept_liked = 2
    /\ result["h6"][1].code = HTTP_200_OK
    /\ result["h6"][1].body.msg = <<"alice", " no longer likes ", "2">>
    /\ db["h6"][1].commits = 1

----------------------------------------------------------------------------
(* C23: the registry of service providers of a handler                     *)

\* a step that is a use_service call on h
C23_Registers(h) == regs'[h] = regs[h] + 1

\* a step in which the data operation of h calls get_service
C23_Asks(h) == pc[h] = "do_data_ops" /\ pc'[h] # "do_data_ops"

C23_Step ==
    \A h \in Erasers :
        /\ C23_Registers(h)
           => /\ \E n \in ServiceNames :
                    /\ services'[h][n] = Some(QueryServiceInit)
                    /\ \A m \in ServiceNames \ {n} : services'[h][m] = services[h][m]
              /\ status'[h] = status[h] /\ result'[h] = result[h]
        /\ C23_Asks(h)
           => IF regs[h] = 0
              THEN /\ pc'[h] = "except"
                   /\ exc'[h] = Some(Exc(NoRegisteredProviderError,
                                         <<"No service registered under ", ENGAGE_DS>>))
              ELSE /\ pc'[h] = "add_query"
                   /\ services'[h][ENGAGE_DS][1].buffer = services[h][ENGAGE_DS][1].buffer
                   /\ services'[h][ENGAGE_DS][1].results = services[h][ENGAGE_DS][1].results

C23_Unregistered ==
    \A h \in Erasers :
        (lastCall[h] = "returned" /\ exc[h] # None
         /\ exc[h][1].type = NoRegisteredProviderError)
        => /\ status[h] = ERROR
           /\ result[h] = Some(EndpointResponse(HTTP_500_INTERNAL_SERVER_ERROR,
                 EndpointErrorMessage(<<"No service registered under ", ENGAGE_DS>>)))

\* C23: a use_service call is accepted whatever the status of the handler is, changes
\* neither status nor result, and puts a new provider under the name in place of the
\* one registered before, so that the data operation gets the provider of the latest
\* registration; when no provider was ever registered under the name the data operation
\* asks for, get_service raises NoRegisteredProviderError and the receive call ends in
\* ERROR with the 500 response carrying that message.
C23_Registry == []C23_Unregistered /\ [][C23_Step]_vars

\* a provider that ran the statement of a completed request has been replaced by a
\* new one
C23_Witness ==
    /\ status["h1"] = COMPLETE
    /\ regs["h1"] = 2
    /\ Len(db["h1"]) = 1 /\ Len(db["h1"][1].executed) = 1
    /\ services["h1"][ENGAGE_DS] = Some(QueryServiceInit)

----------------------------------------------------------------------------
(* C24: the error mappers of all handler classes                           *)

\* the classes whose mapper runs for the raised exception
C24_Chain == Delegation(raised[1].cls, raised[1].exc, MaxDelegation)

C24_Last == C24_Chain[Len(C24_Chain)]

\* C24: for every concrete handler class and every domain exception, the calls of
\* _build_error_response from class to base class end after at most three of them, at
\* the base mapper or at a class that maps the exception itself; the response built
\* has the message of the exception as its error body, has code 500 when the chain
\* ends at the base mapper, and has one of the codes 401, 404 and 500 in any case.
C24_MapperTerminates ==
    /\ Len(C24_Chain) \in 1..3
    /\ OwnMapping(C24_Last, raised[1].exc) # None
    /\ response # None
       => /\ response[1].body = EndpointErrorMessage(raised[1].exc.msg)
          /\ response[1].code \in {HTTP_401_UNAUTHORIZED, HTTP_404_NOT_FOUND,
                                   HTTP_500_INTERNAL_SERVER_ERROR}
          /\ C24_Last = "BaseEndpointHandler"
             <=> response[1].code = HTTP_500_INTERNAL_SERVER_ERROR
          /\ (raised[1].exc.type \notin {NotAuthorizedError, InvalidCredentialsException,
                                         RequestedDataNotFound})
             => response[1].code = HTTP_500_INTERNAL_SERVER_ERROR

\* a not-found exception raised in an eraser went through the gate to the base mapper
C24_Witness ==
    /\ response # None
    /\ raised[1].cls = "StopLikingConceptHandler"
    /\ raised[1].exc.type = RequestedDataNotFound
    /\ C24_Chain = <<"StopLikingConceptHandler", "AuthorizationRequired", "BaseEndpointHandler">>
    /\ response[1].code = HTTP_500_INTERNAL_SERVER_ERROR
    /\ response[1].body.msg = <<"Really obscure error">>

----------------------------------------------------------------------------
(* The concept search statement: C25 .. C27 *)

\* C25: the statement query_concepts returns compares the author with LIKE exactly
\* when the fuzzy option is AUTHOR or ALL and with = otherwise, and compares the title
\* with LIKE exactly when the option is TITLE or ALL and with = otherwise; the
\* parameters compared with are the author and the title of the query.
C25_FuzzyPredicates ==
    statement # None
    => LET f == query[1].fuzzy
           s == statement[1]
       IN /\ s.author.op = (IF f \in {"AUTHOR", "ALL"} THEN "LIKE" ELSE "=")
          /\ s.title.op = (IF f \in {"TITLE", "ALL"} THEN "LIKE" ELSE "=")
          /\ <<s.author.op, s.title.op>> =
                CASE f = "NONE" -> <<"=", "=">>
                  [] f = "AUTHOR" -> <<"LIKE", "=">>
                  [] f = "TITLE" -> <<"=", "LIKE">>
                  [] OTHER -> <<"LIKE", "LIKE">>
          /\ s.author.value = query[1].author /\ s.title.value = query[1].title

\* a search with the option AUTHOR for the authors starting with an a and the exact
\* title x has selected the concepts of two authors
C25_Witness ==
    /\ matched # None
    /\ query[1].fuzzy = "AUTHOR"
    /\ query[1].author = <<"a", "%">> /\ query[1].title = <<"x">>
    /\ statement[1].author.op = "LIKE" /\ statement[1].title.op = "="
    /\ {row.author : row \in matched[1]} = {<<"a", "b">>, <<"a", "c">>}

\* the rows whose author and title satisfy the statement
NamesMatch(row) ==
    Compare(row.author, statement[1].author) /\ Compare(row.title, statement[1].title)

\* C26: whatever the fuzzy option is, the time window of the statement is
\* updated_at > not_before AND updated_at < not_after; of the rows whose author and
\* title match, the statement selects those updated strictly between the two bounds,
\* so neither a row updated at not_before nor one updated at not_after is selected.
C26_StrictWindow ==
    /\ statement # None
       => statement[1].updated_at = <<Predicate(">", query[1].not_before),
                                      Predicate("<", query[1].not_after)>>
    /\ matched # None
       => \A row \in ConceptRows :
             row \in matched[1]
             <=> /\ NamesMatch(row)
                 /\ row.updated_at > query[1].not_before
                 /\ row.updated_at < query[1].not_after

\* a search over the window from 0 to 2 has selected rows updated at 1 and has left
\* out matching rows updated at 0 and at 2
C26_Witness ==
    /\ matched # None
    /\ query[1].not_before = 0 /\ query[1].not_after = 2
    /\ \E row \in matched[1] : row.updated_at = 1
    /\ \E row \in ConceptRows \ matched[1] : NamesMatch(row) /\ row.updated_at = 0
    /\ \E row \in ConceptRows \ matched[1] : NamesMatch(row) /\ row.updated_at = 2

\* C27: the time window of the search is half-open: of the rows whose author and title
\* match, exactly those with not_before <= updated_at < not_after are selected, so a
\* row updated at not_before is selected and a row updated at not_after is not.
C27_HalfOpenWindow ==
    matched # None
    => \A row \in ConceptRows :
          row \in matched[1]
          <=> /\ NamesMatch(row)
              /\ query[1].not_before <= row.updated_at
              /\ row.updated_at < query[1].not_after

----------------------------------------------------------------------------
(* C28: handler instances working at the same time                         *)

\* the fields of handler instance h and of the providers it has registered (with
\* their buffers, cursors and sessions), and the position of its receive call
C28_Fields(h) ==
    <<status[h], result[h], services[h], db[h], pc[h], req[h], exc[h], ret[h],
      lastCall[h]>>

\* every step changes the fields of at most one instance
C28_Step ==
    \A h \in Handlers :
        C28_Fields(h)' # C28_Fields(h)
        => \A g \in Handlers \ {h} : C28_Fields(g)' = C28_Fields(g)

\* the status and result instance h has after its first receive call, as a function
\* of its request and of what its own provider and sessions recorded
C28_AloneOutcome(h) ==
    LET r == req[h][1]
        denied == IF Gated(Kind(h)) THEN check_if_authorized(r.auth_token) ELSE None
        rows == results(Svc(h))[1].rows
    IN IF denied # None
       THEN <<ERROR, Some(EndpointResponse(HTTP_401_UNAUTHORIZED,
                                           EndpointErrorMessage(denied[1].msg)))>>
       ELSE IF db[h] = <<>>
       THEN <<ERROR, Some(EndpointResponse(HTTP_500_INTERNAL_SERVER_ERROR,
                EndpointErrorMessage(<<"No service registered under ", ENGAGE_DS>>)))>>
       ELSE IF db[h][1].executed = <<>> \/ (CallsOne(Kind(h)) /\ rows > 1)
       THEN <<PROCESSING, None>>
       ELSE IF CallsOne(Kind(h)) /\ rows = 0
       THEN <<ERROR, Some(EndpointResponse(HTTP_404_NOT_FOUND,
                EndpointErrorMessage(<<r.follower, " is not following ", r.followee>>)))>>
       ELSE <<COMPLETE, Some(EndpointResponse(HTTP_200_OK, DataOf(Kind(h), r)))>>

C28_Outcome ==
    \A h \in Handlers :
        (calls[h] = 1 /\ pc[h] = "none" /\ regs[h] <= 1)
        => <<status[h], result[h]>> = C28_AloneOutcome(h)

\* C28: when two handler instances, each with its own providers, serve their requests
\* with their steps interleaved in any order, no step of one changes the status,
\* result, registry, buffer, cursor or session of the other, and the status and
\* result each one has after its receive call are the ones determined by its own
\* request and its own query results.
C28_Independent == []C28_Outcome /\ [][C28_Step]_vars

\* both instances are inside their with-blocks at once, each with a session of its own
C28_Witness ==
    /\ pc["h1"] = "exec_next" /\ pc["h2"] = "one"
    /\ Svc("h1").session # None /\ Svc("h2").session # None
    /\ Len(Svc("h1").buffer) = 1 /\ Svc("h2").buffer = <<>>

----------------------------------------------------------------------------
(* C29: the one scope of the lineage handler                               *)

\* the statements of ConceptLineageHandler._do_data_ops for the focus, in program order
C29_Statements ==
    <<Stmt("find_exact_concept", Focus(LineageHandler), Focus(LineageHandler)),
      Stmt("find_parent_ideas", Focus(LineageHandler), LineageDepth),
      Stmt("find_child_ideas", Focus(LineageHandler), LineageDepth)>>

\* the session of the lineage handler is open
C29_InScope ==
    /\ services[LineageHandler][CONCEPTS_DS] # None
    /\ Svc(LineageHandler).session # None
    /\ ~db[LineageHandler][Svc(LineageHandler).session[1]].closed

C29_Inv ==
    LET h == LineageHandler
    IN /\ services[h][CONCEPTS_DS] # None => Len(Svc(h).buffer) <= 1
       /\ Len(db[h]) <= 1
       /\ (db[h] # <<>> /\ (pc[h] # "none" \/ lastCall[h] = "returned"))
          => /\ Len(db[h][1].executed) <= 3
             /\ db[h][1].executed = SubSeq(C29_Statements, 1, Len(db[h][1].executed))
             /\ db[h][1].commits + db[h][1].rollbacks <= 1
       /\ (pc[h] \in {"build_success", "set_complete"} \/ JustReturned)
          => /\ db[h][1].executed = C29_Statements
             /\ db[h][1].commits = 1 /\ db[h][1].rollbacks = 0 /\ db[h][1].closed
             /\ Svc(h).buffer = <<>>

C29_Step ==
    LET h == LineageHandler
    IN /\ lineage'[h] # lineage[h] => C29_InScope /\ C29_InScope'
       /\ (db[h] # <<>> /\ db'[h][1].commits # db[h][1].commits)
          => /\ pc[h] = "exit" /\ pc'[h] = "build_success"
             /\ fetched[h] = {}
             /\ lineage'[h] = lineage[h]
             /\ result'[h] = result[h] /\ result[h] = None
             /\ ret'[h] = Some(ConceptLineage(size(lineage[h]), to_dict(lineage[h])))

\* C29: the lineage handler opens one scope; inside it the focus lookup, the ancestor
\* query and the descendant query are executed in this order, each enqueued only when
\* the buffer is empty, and every node of the tree is created while the scope is open;
\* the scope is committed once, after the last row of the descendant query is attached
\* and before the lineage is returned and the response is built.
C29_OneScope == []C29_Inv /\ [][C29_Step]_vars

\* a lineage with an ancestor and a descendant of the focus was returned from a scope
\* that ran three statements and was committed
C29_Witness ==
    /\ JustReturned
    /\ size(lineage[LineageHandler]) >= 3
    /\ Roots(lineage[LineageHandler]) # {Focus(LineageHandler)}
    /\ Children(lineage[LineageHandler], Focus(LineageHandler)) # {}
    /\ Len(db[LineageHandler][1].executed) = 3
    /\ db[LineageHandler][1].commits = 1

----------------------------------------------------------------------------
(* C30: lineages over arbitrary acyclic link tables                        *)

\* the first receive call of the lineage handler is over, its focus exists and the
\* ancestor query ran on the table in links, and no statement failed in the database
C30_Served ==
    LET h == LineageHandler
    IN /\ calls[h] = 1 /\ pc[h] = "none" /\ lastCall[h] \in {"returned", "raised"}
       /\ Len(db[h]) = 1 /\ Len(db[h][1].executed) >= 2
       /\ ~(exc[h] # None /\ exc[h][1].type = DatabaseError)

\* the focus with its ancestors and descendants at most ten links away
C30_Relatives ==
    LET focus == Focus(LineageHandler)
    IN {focus}
       \cup {row.ancestor : row \in find_parent_ideas(links, focus, LineageDepth)}
       \cup {row.descendant : row \in find_child_ideas(links, focus, LineageDepth)}

\* C30: for every acyclic concept_links table and every existing focus concept, also
\* one with several parents or with descendants reachable by more than one path, the
\* lineage handler ends in COMPLETE with a tree of one root whose nodes are the focus
\* and all its ancestors and descendants within depth 10, each once.
C30_EveryDag ==
    C30_Served
    => /\ TreeReturned
       /\ Cardinality(Roots(lineage[LineageHandler])) = 1
       /\ Ids(lineage[LineageHandler]) = C30_Relatives
       /\ size(lineage[LineageHandler]) = Cardinality(C30_Relatives)

----------------------------------------------------------------------------
(* C31: statements and the scope they were added in                        *)

\* a step in which exec_next executes a statement
C31_Executes ==
    qsOps' = qsOps + 1 /\ qsLast'.op = "exec_next" /\ qsLast'.err = NoError

\* C31: every statement a QueryService executes was added in the scope that executes
\* it, after the __enter__ that opened the scope: a statement that was in the buffer
\* when a scope was left, or was added outside any scope, is not executed by a scope
\* opened later on the same service.
C31_SameScope == [][C31_Executes => QsTaken >= qsMark]_vars

----------------------------------------------------------------------------
(* C32: a finished handler has a result                                    *)

\* what the route reads from handler h after receive
C32_Read(h) == result_property(status[h], result[h])

\* C32: in every reachable state of every handler a status of COMPLETE or ERROR comes
\* with a stored result; so whenever receive has returned without raising, reading
\* result succeeds and gives a response with a status code and a body.
C32_FinishedHasResult ==
    \A h \in Handlers :
        /\ status[h] \in Terminal => result[h] # None
        /\ (pc[h] = "none" /\ lastCall[h] = "returned") =>
              /\ status[h] \in Terminal
              /\ C32_Read(h).err = NoError
              /\ C32_Read(h).value # None
              /\ DOMAIN C32_Read(h).value[1] = {"code", "body"}
              /\ C32_Read(h).value[1].code \in {HTTP_200_OK, HTTP_401_UNAUTHORIZED,
                     HTTP_404_NOT_FOUND, HTTP_500_INTERNAL_SERVER_ERROR}

\* receive returned on both handlers: the gate denied one request with 401 and the
\* other handler completed, and the result of each was read
C32_Witness ==
    \E h, g \in Handlers :
        /\ pc[h] = "none" /\ lastCall[h] = "returned" /\ status[h] = ERROR
        /\ result[h][1].code = HTTP_401_UNAUTHORIZED
        /\ lastRead[h] = [err |-> NoError, value |-> result[h]]
        /\ pc[g] = "none" /\ lastCall[g] = "returned" /\ status[g] = COMPLETE
        /\ lastRead[g] = [err |-> NoError, value |-> result[g]]

----------------------------------------------------------------------------
(* C33: a rejected receive changes nothing                                 *)

\* a step in which receive is called on h and raises HandlerNotIdle
C33_Rejected(h) ==
    calls'[h] = calls[h] + 1 /\ lastCall'[h] = HandlerNotIdleException

\* C33: a receive call rejected with HandlerNotIdle leaves the status, the stored
\* result and the service registry of the handler as they were, and calls neither
\* _do_data_ops (no provider is asked for, no session opened, nothing returned) nor a
\* response builder (the call is over, and no result is stored).
C33_RejectedChangesNothing ==
    [][\A h \in Handlers :
          C33_Rejected(h) =>
              /\ status'[h] = status[h]
              /\ result'[h] = result[h]
              /\ services'[h] = services[h]
              /\ db'[h] = db[h]
              /\ pc'[h] = "none"
              /\ ret'[h] = None
              /\ callSvcOps'[h] = 0]_vars

\* the gated handler rejected an authorized request after it had completed, and the
\* other handler rejected one while left in PROCESSING
C33_Witness ==
    \E h, g \in Handlers :
        /\ Gated(Kind(h)) /\ lastCall[h] = HandlerNotIdleException
        /\ status[h] = COMPLETE /\ result[h] # None
        /\ ~Gated(Kind(g)) /\ lastCall[g] = HandlerNotIdleException
        /\ status[g] = PROCESSING /\ result[g] = None

----------------------------------------------------------------------------
(* C34: a refused exec_next changes nothing                                *)

\* a step in which exec_next raises one of its own two exceptions
C34_Refused ==
    /\ qsOps' = qsOps + 1 /\ qsLast'.op = "exec_next"
    /\ qsLast'.err \in {NoSessionToQueryOnError, NoQueryToRunError}

\* C34: an exec_next that fails with NoSessionToQueryOn or NoQueryToRun leaves the
\* buffer, the cursor and the session (and every session object) as they were; and
\* an exec_next called with no session and an empty buffer fails with
\* NoSessionToQueryOn.
C34_RefusedChangesNothing ==
    [][/\ C34_Refused =>
             /\ qs'.buffer = qs.buffer
             /\ qs'.results = qs.results
             /\ qs'.session = qs.session
             /\ qsDb' = qsDb
       /\ (/\ qsOps' = qsOps + 1 /\ qsLast'.op = "exec_next"
           /\ qs.session = None /\ qs.buffer = <<>>) =>
             qsLast'.err = NoSessionToQueryOnError]_vars

\* exec_next was refused with no session and an empty buffer while the cursor of an
\* earlier statement was exposed
C34_Witness ==
    /\ qsLast.op = "exec_next" /\ qsLast.err = NoSessionToQueryOnError
    /\ qs.session = None /\ qs.buffer = <<>> /\ qs.results # None

----------------------------------------------------------------------------
(* C35: authentication does not tell whether the account exists            *)

\* a receive call of the authentication handler is over
C35_Over ==
    /\ pc[AuthenticationHandler] = "none"
    /\ lastCall[AuthenticationHandler] \in {"returned", "raised"}

\* the lookup of the call was executed and selected no account row
C35_NoAccount ==
    /\ C35_Over
    /\ services[AuthenticationHandler][ACCOUNTS_DS] # None
    /\ results(Svc(AuthenticationHandler)) # None
    /\ results(Svc(AuthenticationHandler))[1].rows = 0

\* the lookup gave one account row whose salted hash is not that of the password
C35_WrongPassword ==
    /\ C35_Over
    /\ \E oracle \in Accounts(req[AuthenticationHandler][1].display_name) :
          /\ fetched[AuthenticationHandler] = {oracle}
          /\ oracle.password_hash #
                sha256(req[AuthenticationHandler][1].password, oracle.salt_value)

\* the one refusal of the authentication handler
C35_Refusal ==
    EndpointResponse(HTTP_401_UNAUTHORIZED,
                     EndpointErrorMessage(<<"Invalid display name or password">>))

\* C35: for any display name and password, the authentication handler ends in ERROR
\* with the same result (401, "Invalid display name or password") when no account
\* row is found and when the account exists but the password hash does not match.
C35_SameRefusal ==
    (C35_NoAccount \/ C35_WrongPassword) =>
        /\ lastCall[AuthenticationHandler] = "returned"
        /\ status[AuthenticationHandler] = ERROR
        /\ result[AuthenticationHandler] = Some(C35_Refusal)

\* a display name without an account row was refused
C35_Witness ==
    /\ C35_NoAccount
    /\ status[AuthenticationHandler] = ERROR
    /\ result[AuthenticationHandler] = Some(C35_Refusal)
    /\ fetched[AuthenticationHandler] = {}

----------------------------------------------------------------------------
(* C36: only the owner of a follow or like record deletes it               *)

\* the requests the two routes can hand to a handler of the kind
C36_RouteRequests(kind) ==
    IF kind = "StopFollowingAccountHandler"
    THEN {stop_following([follower |-> f, followee |-> g], t) :
             f \in Users, g \in Followees, t \in Tokens}
    ELSE {stop_liking([user_liking |-> u, concept_liked |-> c], t) :
             u \in Users, c \in Likeable, t \in Tokens}

\* h is the handler a route created for one request, and has been given it
C36_ThroughRoute(h) ==
    calls[h] = 1 /\ req[h] # None /\ req[h][1] \in C36_RouteRequests(Kind(h))

\* the account whose record the request asks to delete
C36_Owner(h) ==
    IF Kind(h) = "StopFollowingAccountHandler"
    THEN req[h][1].follower ELSE req[h][1].user_liking

\* the token of the request is validly signed and its identity is the owner
C36_OwnersToken(h) ==
    jwt_decode(req[h][1].auth_token.token) = Some([username |-> C36_Owner(h)])

\* C36: through the stop_following and stop_liking routes the delete statement of a
\* follow or like record is executed only for a request whose token decodes to the
\* follower (the liking user); with any other token, also a validly signed one of
\* another account, the result is 401, the handler ends in ERROR, and no scope is
\* opened, so the delete is never executed.
C36_OnlyOwnerDeletes ==
    \A h \in Erasers :
        C36_ThroughRoute(h) =>
            /\ (\E i \in DOMAIN db[h] : db[h][i].executed # <<>>) => C36_OwnersToken(h)
            /\ ~C36_OwnersToken(h) =>
                  /\ db[h] = <<>>
                  /\ callSvcOps[h] = 0
                  /\ result[h] # None /\ result[h][1].code = HTTP_401_UNAUTHORIZED
                  /\ pc[h] = "none" => (status[h] = ERROR /\ lastCall[h] = "returned")

\* bob's validly signed token was presented to unfollow for alice, and refused; the
\* handler had its service registered
C36_Witness ==
    /\ C36_ThroughRoute("h1") /\ pc["h1"] = "none" /\ status["h1"] = ERROR
    /\ req["h1"][1].follower = "alice"
    /\ req["h1"][1].auth_token.token = [signed |-> TRUE, username |-> "bob"]
    /\ services["h1"][ENGAGE_DS] # None
    /\ result["h1"][1].code = HTTP_401_UNAUTHORIZED
    /\ db["h1"] = <<>>

----------------------------------------------------------------------------
(* C37: unfollow is idempotent                                             *)

\* the first and only receive call of unfollow handler h, with an authorized request,
\* is over
C37_Handled(h) ==
    calls[h] = 1 /\ pc[h] = "none" /\ Authorized(h)

\* the follow record the request of h names
C37_Record(h) == <<req[h][1].follower, req[h][1].followee>>

C37_Done ==
    EndpointResponse(HTTP_200_OK,
        EndpointInformationalMessage(ErasedMessage(Kind("h1"), req["h1"][1])))

\* both handlers have been given the same authorized request, one after the other,
\* and both calls returned
C37_Twice ==
    /\ C37_Handled("h1") /\ C37_Handled("h7")
    /\ req["h7"] = req["h1"]
    /\ lastCall["h1"] = "returned" /\ lastCall["h7"] = "returned"

C37_Outcome ==
    /\ \A h \in Unfollowers :
          C37_Handled(h) =>
             IF lastCall[h] = "returned"
             THEN /\ status[h] = COMPLETE
                  /\ result[h][1].code = HTTP_200_OK
                  /\ C37_Record(h) \notin follows
             ELSE lastCall[h] = "raised" /\ exc[h][1].type = DatabaseError
    /\ C37_Twice =>
          /\ result["h1"] = Some(C37_Done)
          /\ result["h7"] = Some(C37_Done)

\* the second handling of a request that the first handler has completed does not
\* change the follow records
C37_SecondChangesNothing ==
    (/\ C37_Handled("h1") /\ lastCall["h1"] = "returned"
     /\ calls["h7"] = 1 /\ req["h7"] = req["h1"]) => follows' = follows

\* C37: the same authorized unfollow request, handled by two fresh handlers one after
\* the other, leaves both COMPLETE with the same 200 result, whether or not the
\* follow record existed (only a failure of the database keeps a call from
\* returning), and the follow records after the second handling are those after the
\* first.
C37_Idempotent == [](C37_Outcome) /\ [][C37_SecondChangesNothing]_vars

\* alice's record existed and both of her two unfollow requests completed
C37_Witness ==
    /\ C37_Twice
    /\ C37_Record("h1") = <<"alice", "bob">>
    /\ status["h1"] = COMPLETE /\ status["h7"] = COMPLETE
    /\ db["h7"][1].commits = 1
    /\ follows = {}

----------------------------------------------------------------------------
(* C38: the comments section of a concept whose replies form a forest      *)

CommentsHandler == "h8"

\* the sessions the handler's service has opened and not closed
C38_Open == {i \in DOMAIN db[CommentsHandler] : ~db[CommentsHandler][i].closed}

\* every scope the handler opened ran one statement, was committed once and is closed
C38_AllCommitted ==
    \A i \in DOMAIN db[CommentsHandler] :
        /\ db[CommentsHandler][i].closed
        /\ db[CommentsHandler][i].commits = 1 /\ db[CommentsHandler][i].rollbacks = 0
        /\ Len(db[CommentsHandler][i].executed) = 1

\* every comment of the table was gathered once, under the comment it responds to
C38_Placed(tree) ==
    /\ Len(tree) = Len(comments)
    /\ \A c \in 1..Len(comments) :
          \E i \in 1..Len(tree) : tree[i] = ConceptComment(c, comments[c])

C38_Inv ==
    /\ Cardinality(C38_Open) <= 1
    /\ Len(db[CommentsHandler]) <= 1 + Len(comments)
    /\ (pc[CommentsHandler] = "none" /\ lastCall[CommentsHandler] = "returned") =>
          IF exc[CommentsHandler] = None
          THEN /\ status[CommentsHandler] = COMPLETE
               /\ Len(db[CommentsHandler]) = 1 + Len(comments)
               /\ C38_AllCommitted
               /\ C38_Placed(comment_tree)
               /\ result[CommentsHandler] = Some(EndpointResponse(HTTP_200_OK, comment_tree))
          ELSE /\ status[CommentsHandler] = ERROR
               /\ exc[CommentsHandler][1].type = NoRegisteredProviderError
    /\ lastCall[CommentsHandler] = "raised" =>
          exc[CommentsHandler][1].type = DatabaseError

\* C38: when the replies among the comments of a concept form a finite forest, a
\* receive call of the comments-section handler terminates; unless no service was
\* registered or the database failed it ends in COMPLETE, having opened one scope for
\* the thread starts and one per comment gathered, never two at a time, all of them
\* committed, and every comment is placed under the comment it responds to.
C38_GathersForest ==
    /\ [](C38_Inv)
    /\ (pc[CommentsHandler] = "do_data_ops") ~> (pc[CommentsHandler] = "none")

\* a thread start with two replies, one of which has a reply of its own, was gathered
\* in four scopes
C38_Witness ==
    /\ comments = <<0, 1, 1>> \/ comments = <<0, 1, 2>>
    /\ pc[CommentsHandler] = "none" /\ status[CommentsHandler] = COMPLETE
    /\ Len(db[CommentsHandler]) = 4
    /\ result[CommentsHandler][1].body = comment_tree
    /\ Len(comment_tree) = 3

====
